---- MODULE Spec2Model ----
(***************************************************************************)
(* Plan-and-execute orchestration core of pipeline-agent:                  *)
(*   workflows/nodes.py     planner / executor / dispatch / evaluator /    *)
(*                          reflexion / HITL gate / synthesizer nodes      *)
(*   workflows/subgraph.py  the compiled sub-graph and run_plan_execute    *)
(*   workflows/hitl.py      HITLManager (request store in Redis)           *)
(*   api/routes/chat.py     confirm_hitl (the resume entry point)          *)
(*   agents/planner.py, agents/reflexion.py   collaborator wrappers        *)
(***************************************************************************)
EXTENDS Integers, Sequences, FiniteSets, TLC

(***************************************************************************)
(* Bounds of the model.                                                    *)
(***************************************************************************)
\* longest task list one planner call produces
MaxNewSteps == 2
\* replans the reflexion collaborator may ask for in one run
MaxReplans == 1
\* most candidate schemes one calculation result holds
MaxSchemes == 2
\* clock steps taken in the request-store specification
MaxTicks == 2
\* resume calls submitted by clients in the request-store specification
MaxConfirms == 2
\* threads that call emit on one tracer in the tracer specification
MaxEmitThreads == 2

(***************************************************************************)
(* Program constants.                                                      *)
(***************************************************************************)
\* create_initial_state(max_retries_per_step=2) in run_plan_execute
DefaultMaxRetries == 2
\* max_hitl_rounds in run_plan_execute
MaxHitlRounds == 3
\* HITLRequest(timeout_seconds=300) in hitl_check_node
RequestTimeoutSeconds == 300
\* setex(key, 300, ...) in submit_response
RespondedTtl == 300
\* setex(key, 30, ...) in the timeout branch of wait_for_response
TimeoutTtl == 30
\* wait_for_response(timeout=300)
WaitTimeout == 300
\* asyncio.sleep(1) in wait_for_response
PollInterval == 1
\* len(text) > 100 in _looks_like_error_text
ShortTextLimit == 100
\* end_pressure < 0.1, in hundredths of a MPa
RiskThreshold == 10
\* timeout = 300 in event_stream
StreamTimeout == 300
\* wait_for(queue.get(), timeout=min(remaining, 60))
HeartbeatInterval == 60

None == "<None>"

(***************************************************************************)
(* Values returned by task executors.  A text is described by what the     *)
(* classification functions look at: its leading whitespace, the marker    *)
(* it starts with after the whitespace, the number of characters after     *)
(* the marker, and the word its body is about.  A JSON text is a string    *)
(* that is exactly one JSON object; a dict is an already decoded object.   *)
(***************************************************************************)
AgentNames == {"data_agent", "calc_agent", "knowledge_agent", "graph_agent", "report_agent"}

\* "cuowu:", "shibai:" and "diaoyong shibai" stand for the three Chinese
\* markers of error_prefixes; "jisuan shibai:" is the marker calc_agent
\* puts in front of its own failure text; "warning:" is no marker
TextHeads == {"none", "error:", "ERROR:", "cuowu:", "shibai:", "exception:",
              "diaoyong shibai", "jisuan shibai:", "warning:"}

SchemeKeys == <<"schemes", "allSchemes", "all_combinations", "allCombinations">>

NoneVal == [kind |-> "none", ws |-> 0, head |-> "none", body |-> 0, topic |-> "",
            key |-> "none", schemes |-> <<>>]

StrVal(ws, head, body, topic) ==
    [kind |-> "str", ws |-> ws, head |-> head, body |-> body, topic |-> topic,
     key |-> "none", schemes |-> <<>>]

JsonVal(key, schemes) ==
    [kind |-> "json", ws |-> 0, head |-> "none", body |-> 0, topic |-> "",
     key |-> key, schemes |-> schemes]

DictVal(key, schemes) ==
    [kind |-> "dict", ws |-> 0, head |-> "none", body |-> 0, topic |-> "",
     key |-> key, schemes |-> schemes]

\* a candidate scheme: end pressure in hundredths of a MPa, energy in kWh
Scheme(p, e) == [end_pressure |-> p, energy_consumption |-> e]

\* n schemes, the first one below the risk threshold when risky
SchemeList(n, risky) ==
    [i \in 1..n |-> Scheme(IF risky /\ i = 1 THEN 5 ELSE 50, 100 + 10 * i)]

(***************************************************************************)
(* Pure helpers of nodes.py.                                               *)
(***************************************************************************)
\* number of characters of a marker
HeadLen(h) ==
    CASE h = "none" -> 0
      [] h = "error:" -> 6
      [] h = "ERROR:" -> 6
      [] h = "cuowu:" -> 3
      [] h = "shibai:" -> 3
      [] h = "exception:" -> 10
      [] h = "diaoyong shibai" -> 4
      [] h = "jisuan shibai:" -> 5
      [] h = "warning:" -> 8

\* str.lower() on a marker
Lower(h) == IF h = "ERROR:" THEN "error:" ELSE h

\* error_prefixes of _looks_like_error_text
error_prefixes == {"cuowu:", "error:", "shibai:", "exception:", "diaoyong shibai"}

\* len(value.strip()): the leading whitespace is not counted
StrippedLen(v) ==
    IF v.kind = "json" THEN 2 + 30 * Len(v.schemes) ELSE HeadLen(v.head) + v.body

\* the marker a stripped, lower-cased text starts with
LoweredHead(v) == IF v.kind = "json" THEN "none" ELSE Lower(v.head)

\* a classification that matches texts of any length
_looks_like_error_text_any_length(value) ==
    IF value.kind \notin {"str", "json"} THEN FALSE
    ELSE IF StrippedLen(value) = 0 THEN FALSE
    ELSE LoweredHead(value) \in error_prefixes

_looks_like_error_text(value) ==
    IF value.kind \notin {"str", "json"} THEN FALSE
    ELSE IF StrippedLen(value) = 0 THEN FALSE
    ELSE IF StrippedLen(value) > ShortTextLimit THEN FALSE
    ELSE LoweredHead(value) \in error_prefixes

\* _extract_schemes: a decoded object, or a text that is exactly one JSON
\* object, gives the list under the first scheme key it has
_extract_schemes(value) ==
    IF value.kind \in {"json", "dict"} /\ \E i \in 1..Len(SchemeKeys) : SchemeKeys[i] = value.key
    THEN value.schemes
    ELSE <<>>

\* any(float(item.get("end_pressure", 1)) < 0.1 for item in schemes)
HasRisk(schemes) == \E i \in 1..Len(schemes) : schemes[i].end_pressure < RiskThreshold

\* the options of the request hitl_check_node builds, one per scheme
HitlOptions(schemes) ==
    [i \in 1..Len(schemes) |->
        [id |-> i - 1,
         risk_level |-> IF schemes[i].end_pressure < RiskThreshold THEN "high" ELSE "normal"]]

(***************************************************************************)
(* Request texts, described by what _is_chat_intent and _fallback_plan     *)
(* look at: whether the text is one of the chat phrases, whether it has    *)
(* at most ten characters, whether it holds a domain keyword, and which    *)
(* of the fallback planner's keyword groups it holds.                      *)
(***************************************************************************)
Text(phrase, short, domain, data, calc, report, graph) ==
    [phrase |-> phrase, short |-> short, domain |-> domain,
     need_data |-> data, need_calc |-> calc, need_report |-> report, need_graph |-> graph]

\* the empty string ""
EmptyText == Text(FALSE, TRUE, FALSE, FALSE, FALSE, FALSE, FALSE)

_is_chat_intent(t) == t.phrase \/ (t.short /\ ~t.domain)

RawStep(agent, number) == [agent |-> agent, step_number |-> number]

\* the agent name of a step the collaborator wrote, described by what
\* _normalize_agent looks at: its value after strip() and lower() when that
\* is a known name ("other" when not), and which of the words data, calc,
\* compute, graph, report it contains
AgentText(value, words) == [value |-> value, words |-> words]

\* the mutant keeps the name the collaborator wrote
_normalize_agent_as_written(agent) == agent.value

_normalize_agent(agent) ==
    IF agent.value \in AgentNames THEN agent.value
    ELSE IF "data" \in agent.words THEN "data_agent"
    ELSE IF "calc" \in agent.words \/ "compute" \in agent.words THEN "calc_agent"
    ELSE IF "graph" \in agent.words THEN "graph_agent"
    ELSE IF "report" \in agent.words THEN "report_agent"
    ELSE "knowledge_agent"

DirectResult == [direct_response |-> TRUE, plan |-> <<>>]

PlanResult(steps) == [direct_response |-> FALSE, plan |-> steps]

\* the mutant leaves out the knowledge task that fills an empty list
FallbackSteps_without_default(t) ==
    LET s1 == IF t.need_data \/ t.need_calc THEN <<"data_agent">> ELSE <<>>
        s2 == IF t.need_calc THEN Append(s1, "calc_agent") ELSE s1
        s3 == IF t.need_graph THEN Append(s2, "graph_agent") ELSE s2
        s5 == IF t.need_report THEN Append(s3, "report_agent") ELSE s3
    IN  [i \in 1..Len(s5) |-> RawStep(s5[i], i)]

\* the steps _fallback_plan appends, in its order
FallbackSteps(t) ==
    LET s1 == IF t.need_data \/ t.need_calc THEN <<"data_agent">> ELSE <<>>
        s2 == IF t.need_calc THEN Append(s1, "calc_agent") ELSE s1
        s3 == IF t.need_graph THEN Append(s2, "graph_agent") ELSE s2
        s4 == IF s3 = <<>> THEN <<"knowledge_agent">> ELSE s3
        s5 == IF t.need_report THEN Append(s4, "report_agent") ELSE s4
    IN  [i \in 1..Len(s5) |-> RawStep(s5[i], i)]

_fallback_plan(t, replan) ==
    IF ~replan /\ _is_chat_intent(t) THEN DirectResult ELSE PlanResult(FallbackSteps(t))

\* what the reasoning collaborator answers to a planning prompt: no usable
\* JSON (ok = FALSE), a direct_response marker, or a list of raw steps
CollabPlan(ok, direct, steps) == [ok |-> ok, direct |-> direct, plan |-> steps]

\* _parse_plan: each step with its agent name normalized; an empty
\* normalized list falls back with the empty text
_parse_plan(out) ==
    LET normalized == [i \in 1..Len(out.plan) |->
                          RawStep(_normalize_agent(out.plan[i].agent), out.plan[i].step_number)]
    IN  IF out.direct THEN DirectResult
        ELSE IF normalized = <<>> THEN _fallback_plan(EmptyText, FALSE)
        ELSE PlanResult(normalized)

\* the mutant asks the collaborator before it looks at the request
create_plan_without_filter(t, out) ==
    IF ~out.ok THEN _fallback_plan(t, FALSE) ELSE _parse_plan(out)

create_plan(t, out) ==
    IF _is_chat_intent(t) THEN DirectResult
    ELSE IF ~out.ok THEN _fallback_plan(t, FALSE)
    ELSE _parse_plan(out)

replan(t, out) ==
    IF ~out.ok THEN _fallback_plan(t, TRUE) ELSE _parse_plan(out)

\* the mutant creates a task that carries an error text
PlanStep_with_error(id, number, agent) ==
    [step_id |-> id, step_number |-> number, agent |-> agent, status |-> "pending",
     result |-> NoneVal, error |-> StrVal(0, "error:", 5, "stale"), retry_count |-> 0]

\* a task as _build_plan_steps creates it
PlanStep(id, number, agent) ==
    [step_id |-> id, step_number |-> number, agent |-> agent, status |-> "pending",
     result |-> NoneVal, error |-> NoneVal, retry_count |-> 0]

\* the mutant hands a new task a retry that is already spent
_build_plan_steps_spent(raw_steps, first_id) ==
    [i \in 1..Len(raw_steps) |->
        [PlanStep(first_id + i - 1,
                  IF raw_steps[i].step_number = 0 THEN i ELSE raw_steps[i].step_number,
                  raw_steps[i].agent) EXCEPT !.retry_count = 1]]

\* _build_plan_steps: fresh identifiers from first_id on; a missing ordinal
\* (0) becomes the position in the list
_build_plan_steps(raw_steps, first_id) ==
    [i \in 1..Len(raw_steps) |->
        PlanStep(first_id + i - 1,
                 IF raw_steps[i].step_number = 0 THEN i ELSE raw_steps[i].step_number,
                 raw_steps[i].agent)]

IsCompleted(step) == step.status = "completed"

\* [step for step in old_plan if step.get("status") == "completed"]
CompletedSteps(p) == SelectSeq(p, IsCompleted)

(***************************************************************************)
(* State of one plan-execute run (AgentState), of the graph that drives    *)
(* it, of its tracer, and of the HITL request store.                       *)
(***************************************************************************)
VARIABLES
    user_input,            \* AgentState.user_input
    plan,                  \* AgentState.plan
    current_step_index,    \* AgentState.current_step_index (0-based)
    needs_replan,          \* AgentState.needs_replan
    reflexion_memories,    \* AgentState.reflexion_memories (step ids)
    error_message,         \* AgentState.error_message
    error_count,           \* AgentState.error_count
    next_agent,            \* AgentState.next_agent
    optimization_result,   \* AgentState.optimization_result (sequence of 0 or 1 scheme)
    final_response,        \* AgentState.final_response
    node,                  \* the graph node that runs next
    interrupt_value,       \* the request the pending interrupt() carries
    hitl_rounds,           \* loop counter of run_plan_execute
    replans,               \* replans decided so far
    next_id,               \* source of generate_task_id()
    trace,                 \* AgentTracer.events
    hitl_store,            \* Redis keys hitl:<session>:<request_id>
    hitl_record,           \* table t_hitl_record
    now,                   \* wall clock, in seconds
    ticks,                 \* clock steps taken so far
    waiter,                \* a wait_for_response call and where it stands
    confirms,              \* confirm_hitl calls handled so far
    last_confirm,          \* what the last confirm_hitl call answered
    execute_result,        \* what execute() did in the dispatch the evaluator has yet to route
    reflexion_result,      \* the reflexion the last reflexion_node decided on
    context,               \* the shared context fields of AgentState
    snapshots,             \* Redis keys workflow:snapshot:<session>
    tracer_queue,          \* AgentTracer._queue: 0 for None, else the queue it refers to
    queues,                \* the asyncio.Queue objects created so far, by number
    emitters,              \* the emit calls in progress, by thread
    stream,                \* the event_stream generator and where it stands
    yielded,               \* what event_stream has yielded so far
    report,                \* one call of _run_parallel_report_pipeline
    planned                \* one call of the planner, outside a run

vars == <<user_input, plan, current_step_index, needs_replan, reflexion_memories,
          error_message, error_count, next_agent, optimization_result, final_response,
          node, interrupt_value, hitl_rounds, replans, next_id, trace,
          hitl_store, hitl_record, now, ticks, waiter, confirms, last_confirm,
          execute_result, reflexion_result, context, snapshots, tracer_queue, queues, emitters, stream, yielded,
          report, planned>>

run_vars == <<user_input, plan, current_step_index, needs_replan, reflexion_memories,
              error_message, error_count, next_agent, optimization_result, final_response,
              node, interrupt_value, hitl_rounds, replans, trace, execute_result,
              reflexion_result, context>>

\* the fields of AgentState
state_vars == <<user_input, plan, current_step_index, needs_replan, reflexion_memories,
                error_message, error_count, next_agent, optimization_result, final_response,
                node, interrupt_value, hitl_rounds, replans, execute_result,
              reflexion_result, context>>

store_vars == <<hitl_store, hitl_record>>

client_vars == <<now, ticks, waiter, confirms, last_confirm>>

tracer_vars == <<tracer_queue, queues, emitters, stream, yielded>>

\* the snapshot store, the queue side of the tracer, the report pipeline,
\* the planner called on its own
service_vars == <<snapshots, tracer_vars, report, planned>>

\* the session of the run, and a session no run ever had
RunSession == "s1"
\* a trace event: its type, its step number, and the text it carries when
\* it is a response chunk
Event(type, step) == [type |-> type, step |-> step, chunk |-> ""]

ResponseChunk(text) == [type |-> "response_chunk", step |-> 0, chunk |-> text]

NoResponse == [selected_option |-> -1]

NoWaiter == [pc |-> "idle", session |-> RunSession, request_id |-> 0, deadline |-> 0,
             wake |-> 0, result |-> "none"]

\* no dispatch is waiting for the evaluator
NoOutcome == [called |-> FALSE, raised |-> FALSE, value |-> NoneVal]

\* pipeline_data, oil_property_data, calculation_result, knowledge_context
\* and report_result as create_initial_state sets them
NoContext ==
    [pipeline_data |-> NoneVal, oil_property_data |-> NoneVal,
     calculation_result |-> NoneVal, knowledge_context |-> NoneVal,
     report_result |-> NoneVal]

\* no reflexion has been made
NoReflexion == [ok |-> FALSE, should_retry |-> FALSE, should_replan |-> FALSE]

NoConfirm == [status |-> "none", session |-> RunSession, request_id |-> 0, selected_option |-> -1]

StoreKey(session, request_id) == <<session, request_id>>

\* redis.get(key): a key whose time to live has run out is gone
Live(key) == key \in DOMAIN hitl_store /\ now < hitl_store[key].expires

EmptyStore == [k \in {} |-> NoResponse]

\* no snapshot is stored, the tracer has no queue, no emit call and no
\* stream, and no report pipeline runs
ServicesIdle ==
    /\ snapshots = EmptyStore
    /\ tracer_queue = 0
    /\ queues = <<>>
    /\ emitters = <<>>
    /\ stream = [pc |-> "none"]
    /\ yielded = <<>>
    /\ report = [pc |-> "none"]
    /\ planned = [pc |-> "none"]

\* the step at current_step_index
CurrentStep == plan[current_step_index + 1]

(***************************************************************************)
(* The conditional edges of the sub-graph (route_to_agent,                 *)
(* route_after_step, route_after_reflexion, route_after_hitl).             *)
(***************************************************************************)
route_to_agent(agent) == IF agent = None THEN "synthesizer" ELSE agent

route_after_step(p, index) ==
    IF index >= Len(p) THEN "synthesizer"
    ELSE IF p[index + 1].status = "failed" THEN "reflexion"
    ELSE IF p[index + 1].status = "completed" THEN "hitl_check"
    ELSE "synthesizer"

route_after_reflexion(replan_flag, p, index) ==
    IF replan_flag THEN "planner"
    ELSE IF index >= Len(p) THEN "synthesizer"
    ELSE "executor"

route_after_hitl(replan_flag, p, index) ==
    IF replan_flag THEN "planner"
    ELSE IF index >= Len(p) THEN "synthesizer"
    ELSE "executor"

(***************************************************************************)
(* Initial state: create_initial_state(...) in run_plan_execute, an empty  *)
(* request store, no client call yet.                                      *)
(***************************************************************************)
Init ==
    /\ user_input \in { Text(TRUE, TRUE, FALSE, FALSE, FALSE, FALSE, FALSE), Text(FALSE, FALSE, TRUE, FALSE, TRUE, FALSE, FALSE) }
    /\ plan = <<>>
    /\ current_step_index = 0
    /\ needs_replan = FALSE
    /\ reflexion_memories = <<>>
    /\ error_message = NoneVal
    /\ error_count = 0
    /\ next_agent = None
    /\ optimization_result = <<>>
    /\ final_response = "none"
    /\ node = "planner"
    /\ interrupt_value = <<>>
    /\ hitl_rounds = 0
    /\ replans = 0
    /\ next_id = 1
    /\ trace = <<>>
    /\ hitl_store = EmptyStore
    /\ hitl_record = EmptyStore
    /\ now = 0
    /\ ticks = 0
    /\ waiter = NoWaiter
    /\ confirms = 0
    /\ last_confirm = NoConfirm
    /\ execute_result = NoOutcome
    /\ reflexion_result = NoReflexion
    /\ context = NoContext
    /\ ServicesIdle

(***************************************************************************)
(* Inputs of a run: what the collaborators and the task executors answer.  *)
(***************************************************************************)
RECURSIVE SeqsUpTo(_, _)
\* all sequences over S of length at most n
SeqsUpTo(S, n) ==
    IF n = 0 THEN {<<>>}
    ELSE LET shorter == SeqsUpTo(S, n - 1)
         IN  shorter \cup {Append(q, x) : q \in {r \in shorter : Len(r) = n - 1}, x \in S}

CollabPlans ==
    {CollabPlan(FALSE, FALSE, <<>>), CollabPlan(TRUE, TRUE, <<>>)}
    \cup {CollabPlan(TRUE, FALSE, [i \in 1..Len(q) |-> RawStep(AgentText(q[i], {}), 0)]) :
            q \in SeqsUpTo(({"calc_agent", "report_agent"}), MaxNewSteps)}

\* what an executor call does: raise with a message, or return a value
Outcome(raised, value) == [called |-> TRUE, raised |-> raised, value |-> value]

\* "error: cannot connect to calculation service", as the message of a
\* raised error and as a returned text
ConnectError == StrVal(0, "error:", 38, "connect")

\* a normal answer in free text
PlainAnswer == StrVal(0, "none", 40, "answer")

\* results with candidate schemes: one scheme below the risk threshold,
\* or two and more feasible ones
SchemeResults == {JsonVal("schemes", SchemeList(n, n = 1)) : n \in 1..MaxSchemes}

ExecutorOutcomes(agent) ==
    {Outcome(TRUE, ConnectError), Outcome(FALSE, ConnectError), Outcome(FALSE, PlainAnswer)}
    \cup {Outcome(FALSE, v) : v \in IF agent = "calc_agent" THEN SchemeResults
                                    ELSE {JsonVal("schemes", SchemeList(MaxSchemes, FALSE))}}

\* what the collaborator answers to the reflexion prompt
ReflexionOutput(ok, retry, again) == [ok |-> ok, should_retry |-> retry, should_replan |-> again]

(***************************************************************************)
(* planner_node                                                            *)
(***************************************************************************)
\* a direct response that leaves the index where it was
direct_update_keeps_index(current_index) ==
    [plan |-> <<>>, current_step_index |-> current_index, needs_replan |-> FALSE,
     final_response |-> "greeting"]

\* the update planner_node returns for a direct response
direct_update(current_index) ==
    [plan |-> <<>>, current_step_index |-> 0, needs_replan |-> FALSE,
     final_response |-> "greeting"]

planner_node(out) ==
    LET old_plan == plan
        current_index == current_step_index
        completed == CompletedSteps(old_plan)
        is_replan == needs_replan /\ old_plan # <<>> /\ current_index < Len(old_plan)
        result == IF is_replan THEN replan(user_input, out) ELSE create_plan(user_input, out)
        event_type == IF is_replan THEN "plan_updated" ELSE "plan_created"
        rebuilt_steps == _build_plan_steps(result.plan, next_id)
        keep == completed # <<>> /\ needs_replan
        plan_steps == IF keep THEN completed \o [i \in 1..Len(rebuilt_steps) |-> [rebuilt_steps[i] EXCEPT !.step_number = Len(completed) + i]]
                      ELSE rebuilt_steps
        next_index == IF keep THEN Len(completed) ELSE 0
    IN  IF result.direct_response
        THEN /\ plan' = direct_update(current_index).plan
             /\ current_step_index' = direct_update(current_index).current_step_index
             /\ needs_replan' = direct_update(current_index).needs_replan
             /\ final_response' = direct_update(current_index).final_response
             /\ trace' = Append(trace, Event("plan_created", 0))
             /\ next_id' = next_id
        ELSE /\ plan' = plan_steps
             /\ current_step_index' = next_index
             /\ needs_replan' = FALSE
             /\ final_response' = final_response
             /\ trace' = Append(trace, Event(event_type, 0))
             /\ next_id' = next_id + Len(rebuilt_steps)

\* planner_node runs; the collaborator answers with one of outs
PlannerWith(outs) ==
    /\ node = "planner"
    /\ \E out \in outs : planner_node(out)
    /\ node' = "executor"
    /\ UNCHANGED <<user_input, reflexion_memories, error_message, error_count, next_agent,
                   optimization_result, interrupt_value, hitl_rounds, replans,
                   execute_result,
                   reflexion_result, context>>
    /\ UNCHANGED <<store_vars, client_vars, service_vars>>

PlannerNode == PlannerWith(CollabPlans)

(***************************************************************************)
(* executor_node                                                           *)
(***************************************************************************)
\* the mutant starts the current task and every task after it
executor_node_starts_rest ==
    IF current_step_index >= Len(plan)
    THEN /\ next_agent' = None
         /\ UNCHANGED <<plan, trace>>
    ELSE /\ plan' = [i \in 1..Len(plan) |->
                        IF i > current_step_index
                        THEN [plan[i] EXCEPT !.status = "in_progress", !.error = NoneVal]
                        ELSE plan[i]]
         /\ trace' = Append(trace, Event("step_started", CurrentStep.step_number))
         /\ next_agent' = CurrentStep.agent

executor_node ==
    IF current_step_index >= Len(plan)
    THEN /\ next_agent' = None
         /\ UNCHANGED <<plan, trace>>
    ELSE /\ plan' = [plan EXCEPT ![current_step_index + 1] =
                        [@ EXCEPT !.status = "in_progress", !.error = NoneVal]]
         /\ trace' = Append(trace, Event("step_started", CurrentStep.step_number))
         /\ next_agent' = CurrentStep.agent

ExecutorNode ==
    /\ node = "executor"
    /\ executor_node
    /\ node' = route_to_agent(next_agent')
    /\ UNCHANGED <<user_input, current_step_index, needs_replan, reflexion_memories,
                   error_message, error_count, optimization_result, final_response,
                   interrupt_value, hitl_rounds, replans, next_id, execute_result,
                   reflexion_result, context>>
    /\ UNCHANGED <<store_vars, client_vars, service_vars>>

(***************************************************************************)
(* The five executor nodes: _run_step_with_agent                           *)
(***************************************************************************)
\* a failure that leaves the run's error counter as it is
error_count_kept(count) == count

\* state.get("error_count", 0) + 1
next_error_count(count) == count + 1

\* _to_result_text: "" for None, a text as it is, json.dumps of an object
_to_result_text(value) ==
    IF value.kind = "none" THEN StrVal(0, "none", 0, "")
    ELSE IF value.kind = "dict" THEN [value EXCEPT !.kind = "json"]
    ELSE value

\* _to_result_data: an object as it is, a text that is one JSON object
\* decoded, anything else wrapped as {"raw": value}
_to_result_data(value) ==
    IF value.kind = "dict" THEN value
    ELSE IF value.kind = "json" THEN [value EXCEPT !.kind = "dict"]
    ELSE [value EXCEPT !.kind = IF value.kind = "none" THEN "raw none" ELSE "raw text"]

\* the mutant folds the value into the context whether or not the task
\* completed
context_update_on_failure(agent_name, completed, result, old) ==
    IF agent_name = "calc_agent"
    THEN [old EXCEPT !.calculation_result = _to_result_data(result)]
    ELSE IF agent_name = "report_agent"
    THEN [old EXCEPT !.report_result = _to_result_data(result)]
    ELSE old

\* the context fields in the update _run_step_with_agent returns: none for
\* a failed task, those of the executor for a completed one
context_update(agent_name, completed, result, old) ==
    IF ~completed THEN old
    ELSE IF agent_name = "data_agent"
    THEN LET parsed == _to_result_data(result)
         IN  IF parsed.kind = "dict" /\ parsed.key = "oil"
             THEN [old EXCEPT !.pipeline_data = parsed,
                              !.oil_property_data = DictVal("none", <<>>)]
             ELSE [old EXCEPT !.pipeline_data = parsed]
    ELSE IF agent_name = "calc_agent"
    THEN [old EXCEPT !.calculation_result = _to_result_data(result)]
    ELSE IF agent_name = "knowledge_agent"
    THEN [old EXCEPT !.knowledge_context = _to_result_text(result)]
    ELSE IF agent_name = "report_agent"
    THEN [old EXCEPT !.report_result = _to_result_data(result)]
    ELSE old

_run_step_with_agent(agent_name, outcome) ==
    IF current_step_index >= Len(plan)
    THEN UNCHANGED <<plan, trace, error_message, error_count, context>>
    ELSE LET step_number == CurrentStep.step_number
             started == trace \o <<Event("agent_thinking", step_number),
                                   Event("tool_called", step_number)>>
         IN  IF ~outcome.raised /\ ~_looks_like_error_text(outcome.value)
             THEN /\ plan' = [plan EXCEPT ![current_step_index + 1] =
                                [@ EXCEPT !.status = "completed",
                                          !.result = outcome.value,
                                          !.error = NoneVal]]
                  /\ trace' = started \o <<Event("step_completed", step_number),
                                           Event("tool_result", step_number)>>
                  /\ error_message' = NoneVal
                  /\ error_count' = error_count
                  /\ context' = context_update(agent_name, TRUE, outcome.value, context)
             ELSE /\ plan' = [plan EXCEPT ![current_step_index + 1] =
                                [@ EXCEPT !.status = "failed", !.error = outcome.value]]
                  /\ trace' = started \o <<Event("step_failed", step_number)>>
                  /\ error_message' = outcome.value
                  /\ error_count' = next_error_count(error_count)
                  /\ context' = context_update(agent_name, FALSE, outcome.value, context)

\* one of the five executor nodes runs; execute() does one of outcomes
Dispatch(outcomes) ==
    /\ node \in AgentNames
    /\ \E outcome \in outcomes :
          /\ _run_step_with_agent(node, outcome)
          /\ execute_result' = outcome
          /\ reflexion_result' = reflexion_result
    /\ node' = "step_evaluator"
    /\ UNCHANGED <<user_input, current_step_index, needs_replan, reflexion_memories,
                   next_agent, optimization_result, final_response,
                   interrupt_value, hitl_rounds, replans, next_id>>
    /\ UNCHANGED <<store_vars, client_vars, service_vars>>

(***************************************************************************)
(* step_evaluator_node                                                     *)
(***************************************************************************)
step_evaluator_node ==
    IF current_step_index >= Len(plan) THEN error_message' = error_message
    ELSE IF CurrentStep.status = "completed" THEN error_message' = NoneVal
    ELSE IF CurrentStep.status = "failed"
         THEN error_message' = (IF CurrentStep.error # NoneVal /\ StrippedLen(CurrentStep.error) + CurrentStep.error.ws > 0
                                THEN CurrentStep.error
                                ELSE StrVal(0, "none", 11, "step failed"))
    ELSE error_message' = error_message

StepEvaluatorNode ==
    /\ node = "step_evaluator"
    /\ step_evaluator_node
    /\ node' = route_after_step(plan, current_step_index)
    /\ execute_result' = NoOutcome
    /\ reflexion_result' = reflexion_result
    /\ context' = context
    /\ UNCHANGED <<user_input, plan, current_step_index, needs_replan, reflexion_memories,
                   error_count, next_agent, optimization_result, final_response,
                   interrupt_value, hitl_rounds, replans, next_id, trace>>
    /\ UNCHANGED <<store_vars, client_vars, service_vars>>

(***************************************************************************)
(* reflexion_node                                                          *)
(***************************************************************************)
\* the keywords of ReflexionAgent._fallback occur in the error text
MentionsMissing(error) == error.topic = "missing"

\* ReflexionAgent.reflect: the parsed answer, or the rule-based fallback
reflect(out, error) ==
    IF out.ok THEN out ELSE ReflexionOutput(FALSE, TRUE, MentionsMissing(error))

\* a retry decision that ignores the budget
ShouldRetryUnbounded(reflexion, retry_count, max_retries) == reflexion.should_retry

\* should_retry of reflexion_node
ShouldRetry(reflexion, retry_count, max_retries) ==
    reflexion.should_retry /\ retry_count < max_retries

\* the mutant replans whenever it does not retry
ShouldReplanAlways(reflexion, retry_count, max_retries) ==
    ~ShouldRetry(reflexion, retry_count, max_retries)

\* should_replan of reflexion_node
ShouldReplan(reflexion, retry_count, max_retries) ==
    reflexion.should_replan /\ ~ShouldRetry(reflexion, retry_count, max_retries)

\* the mutant keeps only the newest memory
remember_newest(memories, step) == <<step.step_id>>

\* state.get("reflexion_memories", []) + [memory]: a memory is known by the
\* task it is about
remember(memories, step) == Append(memories, step.step_id)

reflexion_node(out) ==
    IF current_step_index >= Len(plan)
    THEN UNCHANGED <<plan, current_step_index, needs_replan, reflexion_memories,
                     error_message, trace, replans, reflexion_result>>
    ELSE LET step == CurrentStep
             error == IF step.error # NoneVal THEN step.error ELSE error_message
             reflexion == reflect(out, error)
             retry_count == step.retry_count
             max_retries == DefaultMaxRetries
             memories == remember(reflexion_memories, step)
         IN  /\ trace' = Append(trace, Event("reflexion", step.step_number))
             /\ reflexion_memories' = memories
             /\ reflexion_result' = reflexion
             /\ IF ShouldRetry(reflexion, retry_count, max_retries)
                THEN /\ plan' = [plan EXCEPT ![current_step_index + 1] =
                                   [@ EXCEPT !.retry_count = retry_count + 1,
                                             !.status = "pending",
                                             !.error = NoneVal]]
                     /\ needs_replan' = FALSE
                     /\ error_message' = NoneVal
                     /\ UNCHANGED <<current_step_index, replans>>
                ELSE IF ShouldReplan(reflexion, retry_count, max_retries)
                THEN /\ replans < MaxReplans
                     /\ replans' = replans + 1
                     /\ needs_replan' = TRUE
                     /\ UNCHANGED <<plan, current_step_index, error_message>>
                ELSE /\ current_step_index' = current_step_index + 1
                     /\ needs_replan' = FALSE
                     /\ error_message' = NoneVal
                     /\ UNCHANGED <<plan, replans>>

ReflexionNode ==
    /\ node = "reflexion"
    /\ \E out \in {ReflexionOutput(FALSE, FALSE, FALSE)} \cup {ReflexionOutput(TRUE, a, b) : a \in BOOLEAN, b \in BOOLEAN} : reflexion_node(out)
    /\ node' = route_after_reflexion(needs_replan', plan', current_step_index')
    /\ UNCHANGED <<user_input, error_count, next_agent, optimization_result, final_response,
                   interrupt_value, hitl_rounds, next_id, execute_result, context>>
    /\ UNCHANGED <<store_vars, client_vars, service_vars>>

(***************************************************************************)
(* HITLManager                                                             *)
(***************************************************************************)
\* the payload create_request stores, with the time its key runs out
RequestPayload(request_id, options, timeout_seconds) ==
    [request_id |-> request_id, status |-> "pending", options |-> options,
     response |-> NoResponse, expires |-> now + timeout_seconds]

\* the row save_hitl_request writes
RequestRow(session, status, response) ==
    [session |-> session, status |-> status, response |-> response]

\* create_request: setex of the payload, insert or reset of the row
create_request(store, rows, session, request_id, options, timeout_seconds) ==
    [store |-> (StoreKey(session, request_id) :> RequestPayload(request_id, options, timeout_seconds))
                 @@ store,
     rows |-> (request_id :> RequestRow(session, "pending", NoResponse)) @@ rows]

\* UPDATE t_hitl_record ... WHERE request_id = :request_id
save_hitl_response(rows, request_id, response, status) ==
    IF request_id \in DOMAIN rows
    THEN [rows EXCEPT ![request_id] = [@ EXCEPT !.status = status, !.response = response]]
    ELSE rows

\* submit_response on a key redis.get returns: the stored payload becomes
\* responded whatever its status was, with a fresh time to live
submit_response(store, rows, session, request_id, response) ==
    [store |-> [store EXCEPT ![StoreKey(session, request_id)] =
                  [@ EXCEPT !.status = "responded", !.response = response,
                            !.expires = now + RespondedTtl]],
     rows |-> save_hitl_response(rows, request_id, response, "responded")]

(***************************************************************************)
(* hitl_check_node.  interrupt() raises on the first execution of the      *)
(* node, which ends there; the resume executes the node again from its     *)
(* first line, and interrupt() then returns the resume value.              *)
(***************************************************************************)
\* a gate that asks about the schemes of any executor's result
NeedsDecisionAnyAgent(step) ==
    LET schemes == _extract_schemes(step.result)
    IN  schemes # <<>> /\ (Len(schemes) > 1 \/ HasRisk(schemes))

\* a gate that asks only when there are more than two schemes, or a risk
NeedsDecisionAboveTwo(step) ==
    LET schemes == _extract_schemes(step.result)
    IN  step.agent = "calc_agent" /\ schemes # <<>> /\ (Len(schemes) > 2 \/ HasRisk(schemes))

\* the gate asks for a decision
NeedsDecision(step) ==
    LET schemes == _extract_schemes(step.result)
    IN  step.agent = "calc_agent" /\ schemes # <<>> /\ (Len(schemes) > 1 \/ HasRisk(schemes))

\* the part of hitl_check_node up to interrupt()
hitl_check_node ==
    IF current_step_index >= Len(plan)
    THEN /\ node' = route_after_hitl(needs_replan, plan, current_step_index)
         /\ UNCHANGED <<current_step_index, trace, hitl_store, hitl_record, next_id,
                        interrupt_value>>
    ELSE IF NeedsDecision(CurrentStep)
    THEN LET schemes == _extract_schemes(CurrentStep.result)
             request_id == next_id
             made == create_request(hitl_store, hitl_record, RunSession, request_id,
                                    HitlOptions(schemes), RequestTimeoutSeconds)
         IN  /\ hitl_store' = made.store
             /\ hitl_record' = made.rows
             /\ next_id' = next_id + 1
             /\ trace' = Append(trace, Event("hitl_waiting", CurrentStep.step_number))
             /\ interrupt_value' = <<[request_id |-> request_id, schemes |-> schemes]>>
             /\ node' = "interrupted"
             /\ UNCHANGED current_step_index
    ELSE /\ current_step_index' = current_step_index + 1
         /\ node' = route_after_hitl(needs_replan, plan, current_step_index + 1)
         /\ UNCHANGED <<trace, hitl_store, hitl_record, next_id, interrupt_value>>

HitlCheckNode ==
    /\ node = "hitl_check"
    /\ hitl_check_node
    /\ UNCHANGED <<user_input, plan, needs_replan, reflexion_memories, error_message,
                   error_count, next_agent, optimization_result, final_response,
                   hitl_rounds, replans, execute_result,
                   reflexion_result, context>>
    /\ UNCHANGED <<client_vars, service_vars>>

\* _auto_select_scheme: the first scheme of lowest energy among those whose
\* end pressure is above the threshold, scheme 0 when there is none
_auto_select_scheme(schemes) ==
    LET feasible == {i \in 1..Len(schemes) : schemes[i].end_pressure > RiskThreshold}
        best == {i \in feasible :
                    \A j \in feasible :
                        \/ schemes[i].energy_consumption < schemes[j].energy_consumption
                        \/ (schemes[i].energy_consumption = schemes[j].energy_consumption /\ i <= j)}
    IN  IF feasible = {} THEN 0 ELSE (CHOOSE i \in best : TRUE) - 1

\* a selected option, described by what hitl_check_node looks at: whether
\* it holds "_", and whether what follows the last "_" is an integer
SelectedOption(underscore, numeric, number) ==
    [underscore |-> underscore, numeric |-> numeric, number |-> number]

\* selected_index: int(selected_option.split("_")[-1]), 0 when there is no
\* "_" or when int() raises
selected_index_of(option) ==
    IF option.underscore /\ option.numeric THEN option.number ELSE 0

\* schemes[selected_index] if selected_index < len(schemes) else schemes[0];
\* a negative index counts from the end of the list
SelectedScheme(schemes, selected_index) ==
    IF selected_index >= Len(schemes) THEN schemes[1]
    ELSE IF selected_index >= 0 THEN schemes[selected_index + 1]
    ELSE schemes[Len(schemes) + selected_index + 1]

\* hitl_check_node executed again with the resume value user_choice, the
\* index its selected option stands for; an IndexError ends the run
hitl_check_resumed(user_choice) ==
    LET schemes == _extract_schemes(CurrentStep.result)
        request_id == next_id
        made == create_request(hitl_store, hitl_record, RunSession, request_id,
                               HitlOptions(schemes), RequestTimeoutSeconds)
        response == [selected_option |-> user_choice]
        answered == submit_response(made.store, made.rows, RunSession, request_id, response)
    IN  IF user_choice < -Len(schemes)   \* schemes[selected_index] raises IndexError
        THEN /\ hitl_store' = made.store
             /\ hitl_record' = made.rows
             /\ next_id' = next_id + 1
             /\ trace' = Append(trace, Event("hitl_waiting", CurrentStep.step_number))
             /\ interrupt_value' = <<>>
             /\ node' = "raised"
             /\ UNCHANGED <<optimization_result, current_step_index>>
        ELSE /\ hitl_store' = answered.store
             /\ hitl_record' = answered.rows
             /\ next_id' = next_id + 1
             /\ trace' = trace \o <<Event("hitl_waiting", CurrentStep.step_number),
                                    Event("hitl_resumed", CurrentStep.step_number)>>
             /\ optimization_result' = <<SelectedScheme(schemes, user_choice)>>
             /\ current_step_index' = current_step_index + 1
             /\ interrupt_value' = <<>>
             /\ node' = route_after_hitl(needs_replan, plan, current_step_index + 1)

\* run_plan_execute: an interrupted run is resumed with the auto-selected
\* option, at most max_hitl_rounds times
ResumeHitl ==
    /\ node = "interrupted"
    /\ hitl_rounds < MaxHitlRounds
    /\ hitl_rounds' = hitl_rounds + 1
    /\ hitl_check_resumed(_auto_select_scheme(interrupt_value[1].schemes))
    /\ UNCHANGED <<user_input, plan, needs_replan, reflexion_memories, error_message,
                   error_count, next_agent, final_response, replans, execute_result,
                   reflexion_result, context>>
    /\ UNCHANGED <<client_vars, service_vars>>

(***************************************************************************)
(* synthesizer_node                                                        *)
(***************************************************************************)

\* len(_to_result_text(value))
ResultTextLen(value) ==
    CASE value.kind = "none" -> 0
      [] value.kind = "str" -> value.ws + HeadLen(value.head) + value.body
      [] OTHER -> 2 + 30 * Len(value.schemes)

\* a run in which every state counts as holding a terminal response
has_terminal_response_always(response) == TRUE

\* state.get("final_response") is set and not empty
has_terminal_response(response) == response # "none"

\* the final response of each branch and the response chunks it emits
synthesized(outcome) ==
    LET completed_steps == CompletedSteps(plan)
    IN  IF completed_steps = <<>> /\ has_terminal_response(final_response)
        THEN [final_response |-> final_response,
              chunks |-> <<ResponseChunk(final_response)>>]
        ELSE IF completed_steps = <<>>
        THEN [final_response |-> "apology", chunks |-> <<ResponseChunk("apology")>>]
        ELSE IF Len(completed_steps) = 1 /\ ResultTextLen(completed_steps[1].result) > 0
        THEN [final_response |-> "result", chunks |-> <<ResponseChunk("result")>>]
        ELSE IF outcome = "stream"
        THEN [final_response |-> "merged",
              chunks |-> <<ResponseChunk("token"), ResponseChunk("token")>>]
        ELSE IF outcome = "fail"
        THEN [final_response |-> "joined", chunks |-> <<ResponseChunk("joined")>>]
        ELSE [final_response |-> "joined",
              chunks |-> <<ResponseChunk("token"), ResponseChunk("joined")>>]

\* a synthesizer that emits workflow_completed only after a merge
synthesizer_node_completed_after_merge(outcome) ==
    LET out == synthesized(outcome)
    IN  /\ final_response' = out.final_response
        /\ trace' = trace \o out.chunks
                     \o (IF Len(out.chunks) > 1 THEN <<Event("completed", 0)>> ELSE <<>>)

synthesizer_node(outcome) ==
    LET out == synthesized(outcome)
    IN  /\ final_response' = out.final_response
        /\ trace' = trace \o out.chunks \o <<Event("completed", 0)>>

SynthesizerNode ==
    /\ node = "synthesizer"
    /\ \E outcome \in {"stream", "fail", "fail_midway"} : synthesizer_node(outcome)
    /\ node' = "end"
    /\ UNCHANGED <<user_input, plan, current_step_index, needs_replan, reflexion_memories,
                   error_message, error_count, next_agent, optimization_result,
                   interrupt_value, hitl_rounds, replans, next_id, execute_result,
                   reflexion_result, context>>
    /\ UNCHANGED <<store_vars, client_vars, service_vars>>

(***************************************************************************)
(* The plan-execute run.                                                   *)
(***************************************************************************)
Next ==
    \/ PlannerNode
    \/ ExecutorNode
    \/ Dispatch(ExecutorOutcomes(node))
    \/ StepEvaluatorNode
    \/ ReflexionNode
    \/ HitlCheckNode
    \/ ResumeHitl
    \/ SynthesizerNode

Spec == Init /\ [][Next]_vars

(***************************************************************************)
(* The resume entry point and the waiter, acting on the request store of   *)
(* a run that is suspended at the HITL gate.                               *)
(***************************************************************************)
\* get_pending_request: the request_id of a pending payload of the session,
\* whichever scan_iter meets first; 0 when there is none
PendingIds(session) ==
    {k[2] : k \in {key \in DOMAIN hitl_store :
                     /\ key[1] = session
                     /\ Live(key)
                     /\ hitl_store[key].status = "pending"}}

\* confirm_hitl: the response is stored when the key exists, an error of
\* submit_response is logged and dropped, resume_from_hitl answers without
\* touching any run, and the call reports "resumed"
confirm_hitl(session, given_id, selected_option, pending_id) ==
    LET request_id == IF given_id # 0 THEN given_id ELSE pending_id
        response == [selected_option |-> selected_option]
        stored == submit_response(hitl_store, hitl_record, session, request_id, response)
    IN  /\ IF request_id # 0 /\ Live(StoreKey(session, request_id))
           THEN /\ hitl_store' = stored.store
                /\ hitl_record' = stored.rows
           ELSE UNCHANGED <<hitl_store, hitl_record>>
        /\ last_confirm' = [status |-> "resumed", session |-> session,
                            request_id |-> request_id, selected_option |-> selected_option]

ConfirmHitl ==
    /\ confirms < MaxConfirms
    /\ confirms' = confirms + 1
    /\ \E session \in {RunSession, ("s2")}, given_id \in {0, next_id} \cup {key[2] : key \in DOMAIN hitl_store},
          selected_option \in (0..(MaxSchemes - 1)) :
          \E pending_id \in (IF PendingIds(session) = {} THEN {0} ELSE PendingIds(session)) :
             confirm_hitl(session, given_id, selected_option, pending_id)
    /\ UNCHANGED <<run_vars, next_id, now, ticks, waiter, service_vars>>

\* wait_for_response is called for a request of the run
StartWait ==
    /\ waiter.pc = "idle"
    /\ \E key \in DOMAIN hitl_store :
          waiter' = [pc |-> "polling", session |-> key[1], request_id |-> key[2],
                     deadline |-> now + WaitTimeout, wake |-> now, result |-> "none"]
    /\ UNCHANGED <<run_vars, store_vars, next_id, now, ticks, confirms, last_confirm,
                   service_vars>>

\* one turn of wait_for_response once its sleep is over: a poll while the
\* deadline is ahead, the timeout branch once it has passed
wait_for_response ==
    LET key == StoreKey(waiter.session, waiter.request_id)
    IN  IF now < waiter.deadline
        THEN /\ IF ~Live(key)
                THEN waiter' = [waiter EXCEPT !.pc = "done", !.result = "none"]
                ELSE IF hitl_store[key].status = "responded"
                THEN waiter' = [waiter EXCEPT !.pc = "done", !.result = "response"]
                ELSE waiter' = [waiter EXCEPT !.wake = now + PollInterval]
             /\ UNCHANGED <<hitl_store, hitl_record>>
        ELSE /\ waiter' = [waiter EXCEPT !.pc = "done", !.result = "none"]
             /\ IF Live(key)
                THEN /\ hitl_store' = [hitl_store EXCEPT ![key] =
                                          [@ EXCEPT !.status = "timeout",
                                                    !.expires = now + TimeoutTtl]]
                     /\ hitl_record' = save_hitl_response(hitl_record, waiter.request_id,
                                                          NoResponse, "timeout")
                ELSE UNCHANGED <<hitl_store, hitl_record>>

WaitTurn ==
    /\ waiter.pc = "polling"
    /\ now >= waiter.wake
    /\ wait_for_response
    /\ UNCHANGED <<run_vars, next_id, now, ticks, confirms, last_confirm, service_vars>>

\* time passes
Tick ==
    /\ ticks < MaxTicks
    /\ ticks' = ticks + 1
    /\ \E d \in ({PollInterval, TimeoutTtl, WaitTimeout - PollInterval, WaitTimeout}) : now' = now + d
    /\ UNCHANGED <<run_vars, store_vars, next_id, waiter, confirms, last_confirm,
                   service_vars>>

\* the request for a pressure-drop calculation
CalcRequest == Text(FALSE, FALSE, TRUE, FALSE, TRUE, FALSE, FALSE)

\* the tasks a plan may hold after its calculation task: none, or a report
LaterTasks == {<<>>, <<RawStep("report_agent", 0)>>}

\* a run whose first task, a calculation, returned schemes and which
\* hitl_check_node has just suspended; later holds the tasks still to come
Suspended(schemes, later) ==
    LET built == _build_plan_steps(<<RawStep("calc_agent", 0)>> \o later, 1)
        step == [built[1] EXCEPT !.status = "completed",
                                 !.result = JsonVal("schemes", schemes)]
        request_id == Len(built) + 1
        made == create_request(EmptyStore, EmptyStore, RunSession, request_id,
                               HitlOptions(schemes), RequestTimeoutSeconds)
    IN  /\ now = 0
        /\ user_input = CalcRequest
        /\ plan = <<step>> \o Tail(built)
        /\ current_step_index = 0
        /\ needs_replan = FALSE
        /\ reflexion_memories = <<>>
        /\ error_message = NoneVal
        /\ error_count = 0
        /\ next_agent = "calc_agent"
        /\ optimization_result = <<>>
        /\ final_response = "none"
        /\ node = "interrupted"
        /\ interrupt_value = <<[request_id |-> request_id, schemes |-> schemes]>>
        /\ hitl_rounds = 0
        /\ replans = 0
        /\ next_id = request_id + 1
        /\ trace = <<Event("plan_created", 0), Event("step_started", 1),
                     Event("agent_thinking", 1), Event("tool_called", 1),
                     Event("step_completed", 1), Event("tool_result", 1),
                     Event("hitl_waiting", 1)>>
        /\ hitl_store = made.store
        /\ hitl_record = made.rows
        /\ ticks = 0
        /\ waiter = NoWaiter
        /\ confirms = 0
        /\ last_confirm = NoConfirm
        /\ execute_result = NoOutcome
        /\ reflexion_result = NoReflexion
        /\ context = NoContext
        /\ ServicesIdle

InitHitl ==
    \E n \in 2..MaxSchemes, later \in LaterTasks : Suspended(SchemeList(n, FALSE), later)

NextHitl ==
    \/ ConfirmHitl
    \/ StartWait
    \/ WaitTurn
    \/ Tick
    \/ ResumeHitl
    \/ ExecutorNode
    \/ SynthesizerNode

SpecHitl == InitHitl /\ [][NextHitl]_vars

(***************************************************************************)
(* The resume of a suspended run, with the option run_plan_execute selects *)
(* and with every kind of option a resume value can hold, for every kind   *)
(* of scheme list the gate suspends on.                                    *)
(***************************************************************************)

\* the graph is resumed with a resume value that holds any selected option
ResumeWithOption ==
    /\ node = "interrupted"
    \* "scheme_k" for small k of either sign, "scheme_x", and "approve"
    /\ \E option \in {SelectedOption(TRUE, TRUE, k) : k \in (-MaxSchemes - 1)..MaxSchemes}
                        \cup {SelectedOption(TRUE, FALSE, 0), SelectedOption(FALSE, FALSE, 0)} :
            hitl_check_resumed(selected_index_of(option))
    /\ UNCHANGED <<user_input, plan, needs_replan, reflexion_memories, error_message,
                   error_count, next_agent, final_response, hitl_rounds, replans,
                   execute_result, reflexion_result, context>>
    /\ UNCHANGED <<client_vars, service_vars>>

\* scheme lists the gate asks about: end pressures below, at and above 0.1
\* MPa, two energies
InitResume ==
    \E schemes \in {q \in SeqsUpTo({Scheme(p, e) : p \in {5, RiskThreshold, 50},
                                                    e \in {100, 200}}, MaxSchemes) :
                        q # <<>> /\ (Len(q) > 1 \/ HasRisk(q))},
       later \in LaterTasks :
        Suspended(schemes, later)

NextResume ==
    \/ ResumeHitl
    \/ ResumeWithOption
    \/ ExecutorNode
    \/ SynthesizerNode

SpecResume == InitResume /\ [][NextResume]_vars

(***************************************************************************)
(* The dispatch wrapper and the evaluator on every kind of value an        *)
(* executor can hand back, for a task the executor node has just started.  *)
(***************************************************************************)
\* everything execute() can do
AllOutcomes ==
    {Outcome(TRUE, ConnectError), Outcome(TRUE, StrVal(0, "none", 20, "timeout"))}
    \cup {Outcome(FALSE, StrVal(ws, head, body, "connect")) :
              ws \in {0, 2}, head \in TextHeads,
              body \in {0, 20, ShortTextLimit - 6, ShortTextLimit - 5}}
    \cup {Outcome(FALSE, NoneVal),
          Outcome(FALSE, JsonVal("oil", <<>>)),
          Outcome(FALSE, JsonVal("schemes", SchemeList(MaxSchemes, FALSE))),
          Outcome(FALSE, DictVal("schemes", SchemeList(MaxSchemes, FALSE)))}

\* a run whose plan is one task for agent, which executor_node has started
Dispatched(agent) ==
    /\ user_input = CalcRequest
    /\ plan = <<[PlanStep(1, 1, agent) EXCEPT !.status = "in_progress"]>>
    /\ current_step_index = 0
    /\ needs_replan = FALSE
    /\ reflexion_memories = <<>>
    /\ error_message = NoneVal
    /\ error_count = 0
    /\ next_agent = agent
    /\ optimization_result = <<>>
    /\ final_response = "none"
    /\ node = agent
    /\ interrupt_value = <<>>
    /\ hitl_rounds = 0
    /\ replans = 0
    /\ next_id = 2
    /\ trace = <<Event("plan_created", 0), Event("step_started", 1)>>
    /\ hitl_store = EmptyStore
    /\ hitl_record = EmptyStore
    /\ now = 0
    /\ ticks = 0
    /\ waiter = NoWaiter
    /\ confirms = 0
    /\ last_confirm = NoConfirm
    /\ execute_result = NoOutcome
    /\ reflexion_result = NoReflexion
    /\ context = NoContext
    /\ ServicesIdle

InitDispatch == \E agent \in AgentNames : Dispatched(agent)

NextDispatch ==
    \/ Dispatch(AllOutcomes)
    \/ StepEvaluatorNode

SpecDispatch == InitDispatch /\ [][NextDispatch]_vars

(***************************************************************************)
(* A run of one task from its dispatch to the synthesizer, on every kind   *)
(* of value the executor can hand back.  A failed task stops at reflexion. *)
(***************************************************************************)
NextSingle ==
    \/ Dispatch(AllOutcomes)
    \/ StepEvaluatorNode
    \/ HitlCheckNode
    \/ ResumeHitl
    \/ SynthesizerNode

SpecSingle == InitDispatch /\ [][NextSingle]_vars

(***************************************************************************)
(* A run whose plan holds several calculation tasks, every one of which    *)
(* succeeds, from the planner's return to the return of run_plan_execute.  *)
(***************************************************************************)
\* the most calculation tasks in a plan
MaxGateTasks == 4

\* planner_node has just stored a plan of n calculation tasks
Planned(n) ==
    /\ user_input = CalcRequest
    /\ plan = _build_plan_steps([i \in 1..n |-> RawStep("calc_agent", 0)], 1)
    /\ current_step_index = 0
    /\ needs_replan = FALSE
    /\ reflexion_memories = <<>>
    /\ error_message = NoneVal
    /\ error_count = 0
    /\ next_agent = None
    /\ optimization_result = <<>>
    /\ final_response = "none"
    /\ node = "executor"
    /\ interrupt_value = <<>>
    /\ hitl_rounds = 0
    /\ replans = 0
    /\ next_id = n + 1
    /\ trace = <<Event("plan_created", 0)>>
    /\ hitl_store = EmptyStore
    /\ hitl_record = EmptyStore
    /\ now = 0
    /\ ticks = 0
    /\ waiter = NoWaiter
    /\ confirms = 0
    /\ last_confirm = NoConfirm
    /\ execute_result = NoOutcome
    /\ reflexion_result = NoReflexion
    /\ context = NoContext
    /\ ServicesIdle

InitGate == \E n \in 1..MaxGateTasks : Planned(n)

NextGate ==
    \/ ExecutorNode
    \/ Dispatch({Outcome(FALSE, v) : v \in SchemeResults \cup {PlainAnswer}})
    \/ StepEvaluatorNode
    \/ HitlCheckNode
    \/ ResumeHitl
    \/ SynthesizerNode

SpecGate == InitGate /\ [][NextGate]_vars

\* run_plan_execute has returned: the graph has ended, or the loop of
\* max_hitl_rounds resumes is over
Returned == node = "end" \/ (node = "interrupted" /\ hitl_rounds >= MaxHitlRounds)

(***************************************************************************)
(* A run of one task that fails, with every kind of error text, through    *)
(* its retries.  A replan stops at the planner.                            *)
(***************************************************************************)

NextRetry ==
    \/ Dispatch({Outcome(raised, error) : raised \in BOOLEAN, error \in {ConnectError, (StrVal(0, "error:", 29, "missing"))}})
    \/ StepEvaluatorNode
    \/ ReflexionNode
    \/ ExecutorNode
    \/ SynthesizerNode

SpecRetry == InitDispatch /\ [][NextRetry]_vars

(***************************************************************************)
(* A run on a plan of several tasks, each of which fails or answers in     *)
(* free text, through skips and replans.                                   *)
(***************************************************************************)
NextSkip ==
    \/ PlannerNode
    \/ ExecutorNode
    \/ Dispatch({Outcome(TRUE, ConnectError), Outcome(FALSE, PlainAnswer)})
    \/ StepEvaluatorNode
    \/ ReflexionNode
    \/ HitlCheckNode
    \/ SynthesizerNode

\* a plan of three tasks lets a replan follow a skipped and a completed task
InitSkip == Planned(3)

SpecSkip == InitSkip /\ [][NextSkip]_vars

(***************************************************************************)
(* SessionSnapshotStore.  Nothing in the program calls save: neither       *)
(* hitl_check_node nor run_plan_execute nor any other node, so no step of  *)
(* a run changes snapshots.                                                *)
(***************************************************************************)
\* ttl_seconds of SessionSnapshotStore
SnapshotTtl == 3600

\* save: setex of the serialized state under the session's key
save(store, session_id, state) ==
    (session_id :> [state |-> state, expires |-> now + SnapshotTtl]) @@ store

\* load: the stored state as a one-element sequence, the empty sequence
\* for None, when the key is missing or has run out
load(store, session_id) ==
    IF session_id \in DOMAIN store /\ now < store[session_id].expires
    THEN <<store[session_id].state>>
    ELSE <<>>

(***************************************************************************)
(* AgentTracer: emit called from several threads, and one event_stream     *)
(* generator.  _ensure_queue reads self._queue and, when it is None,       *)
(* creates a queue and assigns it, without a lock: the read and the        *)
(* assignment are separate steps, and so are the append to events and the  *)
(* put_nowait of emit.                                                     *)
(***************************************************************************)

\* WORKFLOW_COMPLETED and WORKFLOW_ERROR
TerminalTypes == {"completed", "error"}

EmitThreads == 1..MaxEmitThreads

\* the events a thread emits, in order: the first thread a step event and
\* then the terminal event, every other thread one tool event of its own
EmitScript(thread, terminal) ==
    IF thread = 1 THEN <<Event("step_started", 1), Event(terminal, 0)>>
    ELSE <<Event("tool_called", thread)>>

\* what event_stream yields: the payload of a trace event, a heartbeat, or
\* the error of its own deadline
StreamItem(event) == [event |-> event.type, kind |-> "trace", step |-> event.step]
HeartbeatItem == [event |-> "heartbeat", kind |-> "heartbeat", step |-> 0]
StreamTimeoutItem == [event |-> "error", kind |-> "stream timeout", step |-> 0]

\* a stream that ends on workflow_completed only
is_terminal_completed_only(event_type) == event_type = "completed"

\* event.event_type in (WORKFLOW_COMPLETED, WORKFLOW_ERROR)
is_terminal(event_type) == event_type \in TerminalTypes

\* a wait that lasts until the deadline of the stream
wait_unbounded(remaining) == remaining

\* min(remaining, 60)
wait_bound(remaining) == IF remaining < HeartbeatInterval THEN remaining ELSE HeartbeatInterval

\* emit, first part: the event is built and appended to events
EmitAppend(t) ==
    /\ emitters[t].pc = "idle"
    /\ emitters[t].todo # <<>>
    /\ trace' = Append(trace, Head(emitters[t].todo))
    /\ emitters' = [emitters EXCEPT ![t] = [@ EXCEPT !.pc = "ensure",
                                                     !.event = Head(emitters[t].todo),
                                                     !.todo = Tail(emitters[t].todo)]]
    /\ UNCHANGED <<tracer_queue, queues, stream, yielded>>

\* _ensure_queue in emit: self._queue is read
EmitEnsure(t) ==
    /\ emitters[t].pc = "ensure"
    /\ emitters' = [emitters EXCEPT ![t] =
                      IF tracer_queue = 0 THEN [@ EXCEPT !.pc = "create"]
                      ELSE [@ EXCEPT !.pc = "put", !.queue = tracer_queue]]
    /\ UNCHANGED <<trace, tracer_queue, queues, stream, yielded>>

\* _ensure_queue in emit: a queue is created and assigned to self._queue
EmitCreate(t) ==
    /\ emitters[t].pc = "create"
    /\ queues' = Append(queues, <<>>)
    /\ tracer_queue' = Len(queues) + 1
    /\ emitters' = [emitters EXCEPT ![t] = [@ EXCEPT !.pc = "put", !.queue = Len(queues) + 1]]
    /\ UNCHANGED <<trace, stream, yielded>>

\* put_nowait(event) on the queue _ensure_queue returned
EmitPut(t) ==
    /\ emitters[t].pc = "put"
    /\ queues' = [queues EXCEPT ![emitters[t].queue] = Append(@, emitters[t].event)]
    /\ emitters' = [emitters EXCEPT ![t] = [@ EXCEPT !.pc = "idle"]]
    /\ UNCHANGED <<trace, tracer_queue, stream, yielded>>

\* _ensure_queue in event_stream: self._queue is read; when it is set the
\* deadline is taken and the loop begins
StreamEnsure ==
    /\ stream.pc = "new"
    /\ stream' = IF tracer_queue = 0 THEN [stream EXCEPT !.pc = "create"]
                 ELSE [stream EXCEPT !.pc = "loop", !.queue = tracer_queue,
                                     !.deadline = now + StreamTimeout]
    /\ UNCHANGED <<trace, tracer_queue, queues, emitters, yielded>>

\* _ensure_queue in event_stream: a queue is created and assigned
StreamCreate ==
    /\ stream.pc = "create"
    /\ queues' = Append(queues, <<>>)
    /\ tracer_queue' = Len(queues) + 1
    /\ stream' = [stream EXCEPT !.pc = "loop", !.queue = Len(queues) + 1,
                                !.deadline = now + StreamTimeout]
    /\ UNCHANGED <<trace, emitters, yielded>>

\* top of the loop: the stream ends with its own error once the deadline
\* has passed, else it waits for the queue
StreamLoop ==
    /\ stream.pc = "loop"
    /\ LET remaining == stream.deadline - now
       IN  IF remaining <= 0
           THEN /\ yielded' = Append(yielded, StreamTimeoutItem)
                /\ stream' = [stream EXCEPT !.pc = "done"]
           ELSE /\ yielded' = yielded
                /\ stream' = [stream EXCEPT !.pc = "waiting", !.wait_start = now,
                                            !.wait_until = now + wait_bound(remaining)]
    /\ UNCHANGED <<trace, tracer_queue, queues, emitters>>

\* queue.get() returns: the event is yielded, and a terminal one ends the
\* stream
StreamGet ==
    /\ stream.pc = "waiting"
    /\ queues[stream.queue] # <<>>
    /\ LET event == Head(queues[stream.queue])
       IN  /\ queues' = [queues EXCEPT ![stream.queue] = Tail(@)]
           /\ yielded' = Append(yielded, StreamItem(event))
           /\ stream' = [stream EXCEPT !.pc = IF is_terminal(event.type) THEN "done" ELSE "loop"]
    /\ UNCHANGED <<trace, tracer_queue, emitters>>

\* asyncio.TimeoutError: the wait is over, a heartbeat is yielded
StreamHeartbeat ==
    /\ stream.pc = "waiting"
    /\ now >= stream.wait_until
    /\ yielded' = Append(yielded, HeartbeatItem)
    /\ stream' = [stream EXCEPT !.pc = "loop"]
    /\ UNCHANGED <<trace, tracer_queue, queues, emitters>>

TracerFrame ==
    UNCHANGED <<state_vars, next_id, store_vars, client_vars, snapshots, report, planned>>

\* a tracer just created by create_tracer, the threads about to emit, and
\* a stream generator not yet started
InitTracer ==
    /\ user_input = CalcRequest
    /\ plan = <<>>
    /\ current_step_index = 0
    /\ needs_replan = FALSE
    /\ reflexion_memories = <<>>
    /\ error_message = NoneVal
    /\ error_count = 0
    /\ next_agent = None
    /\ optimization_result = <<>>
    /\ final_response = "none"
    /\ node = "planner"
    /\ interrupt_value = <<>>
    /\ hitl_rounds = 0
    /\ replans = 0
    /\ next_id = 1
    /\ trace = <<>>
    /\ hitl_store = EmptyStore
    /\ hitl_record = EmptyStore
    /\ now = 0
    /\ ticks = 0
    /\ waiter = NoWaiter
    /\ confirms = 0
    /\ last_confirm = NoConfirm
    /\ execute_result = NoOutcome
    /\ reflexion_result = NoReflexion
    /\ context = NoContext
    /\ snapshots = EmptyStore
    /\ report = [pc |-> "none"]
    /\ planned = [pc |-> "none"]
    /\ tracer_queue = 0
    /\ queues = <<>>
    /\ \E terminal \in TerminalTypes :
          emitters = [t \in EmitThreads |->
                        [pc |-> "idle", todo |-> EmitScript(t, terminal),
                         event |-> Event("none", 0), queue |-> 0]]
    /\ stream = [pc |-> "new", queue |-> 0, deadline |-> 0, wait_start |-> 0, wait_until |-> 0]
    /\ yielded = <<>>

NextTracer ==
    \/ ((\E t \in EmitThreads : EmitAppend(t) \/ EmitEnsure(t)) /\ TracerFrame)
    \/ ((\E t \in EmitThreads : EmitCreate(t) \/ EmitPut(t)) /\ TracerFrame)
    \/ ((StreamEnsure \/ StreamCreate) /\ TracerFrame)
    \/ (StreamLoop /\ TracerFrame)
    \/ (StreamGet /\ TracerFrame)
    \/ (StreamHeartbeat /\ TracerFrame)
    \/ Tick

SpecTracer == InitTracer /\ [][NextTracer]_vars

(***************************************************************************)
(* The report pipeline: _run_parallel_report_pipeline up to the dictionary  *)
(* of collected results.                                                    *)
(***************************************************************************)
\* the three collection branches handed to asyncio.gather
Branches == {"data", "knowledge", "graph"}

\* a value in the pipeline: an exception, a string or a dictionary.  form is
\* the shape of a string (plain text, text in braces that is not JSON, a JSON
\* object), success whether the object's "success" is true, keys the keys of
\* the dictionary or of the object, data_keys the keys of the dictionary
\* under "data", src the call the value came from
ReportValue(kind, form, success, keys, data_keys, src) ==
    [kind |-> kind, form |-> form, success |-> success, keys |-> keys,
     data_keys |-> data_keys, src |-> src]

NoValue == ReportValue("none", "none", FALSE, {}, {}, "none")

Raised(src) == ReportValue("exception", "none", FALSE, {}, {}, src)

TextValue(form, success, keys, data_keys, src) ==
    ReportValue("str", form, success, keys, data_keys, src)

Dictionary(keys, data_keys, src) == ReportValue("dict", "none", FALSE, keys, data_keys, src)

\* the mutant keeps an exception as it is
_normalize_result_keeps_exception(value) ==
    IF value.kind = "str"
    THEN IF value.form = "object"
         THEN IF value.success /\ "data" \in value.keys
              THEN Dictionary(value.data_keys, {}, value.src)
              ELSE Dictionary(value.keys, value.data_keys, value.src)
         ELSE Dictionary({"raw"}, {}, value.src)
    ELSE value

_normalize_result(value) ==
    IF value.kind = "exception"
    THEN Dictionary({"error"}, {}, value.src)
    ELSE IF value.kind = "str"
    THEN IF value.form = "object"
         THEN IF value.success /\ "data" \in value.keys
              THEN Dictionary(value.data_keys, {}, value.src)
              ELSE Dictionary(value.keys, value.data_keys, value.src)
         ELSE Dictionary({"raw"}, {}, value.src)
    ELSE value

_extract_calc_available_data(data_result) ==
    IF data_result.kind # "dict"
    THEN NoValue
    ELSE IF data_result.keys \cap {"pipeline", "oil", "pump_station"} # {}
    THEN data_result
    ELSE IF "data" \in data_result.keys /\ data_result.data_keys # {}
    THEN Dictionary(data_result.data_keys, {}, data_result.src)
    ELSE data_result

\* what agent.execute of a collection branch may do: raise, or return plain
\* text, braces that do not parse, a JSON object with success and data, a JSON
\* object reporting a failure, or a dictionary
BranchOutcomes(b) ==
    { Raised(b),
      TextValue("plain", FALSE, {}, {}, b),
      TextValue("broken", FALSE, {}, {}, b),
      TextValue("object", TRUE, {"success", "data"}, {"pipeline"}, b),
      TextValue("object", FALSE, {"success", "message"}, {}, b),
      Dictionary({"data"}, {"oil"}, b) }

\* the worker thread of a branch enters agent.execute
BranchStart(b) ==
    /\ report.pc = "gather"
    /\ report.branch[b].pc = "scheduled"
    /\ report' = [report EXCEPT !.branch[b].pc = "running"]

\* agent.execute of a branch returns or raises; with return_exceptions the
\* exception is the branch's result
BranchFinish(b) ==
    /\ report.pc = "gather"
    /\ report.branch[b].pc = "running"
    /\ \E outcome \in BranchOutcomes(b) :
          report' = [report EXCEPT !.branch[b] = [pc |-> "done", result |-> outcome]]

\* gather returns once every branch is done; the data result is normalized
\* and the calculation is started with what can be taken from it
CalcStart ==
    /\ report.pc = "gather"
    /\ \A b \in Branches : report.branch[b].pc = "done"
    /\ LET data_normalized == _normalize_result(report.branch["data"].result)
       IN  report' = [report EXCEPT
                        !.pc = "calc",
                        !.collected["data"] = data_normalized,
                        !.calc = [pc |-> "running",
                                  available |-> _extract_calc_available_data(data_normalized),
                                  result |-> NoValue]]

\* the calculation returns and the four results are collected
CalcFinish ==
    /\ report.pc = "calc"
    /\ \E outcome \in { TextValue("plain", FALSE, {}, {}, "calc"), TextValue("object", TRUE, {"success", "data"}, {"head_loss"}, "calc") } :
          report' = [report EXCEPT
                       !.pc = "collected",
                       !.calc.pc = "done",
                       !.calc.result = outcome,
                       !.collected["calc"] = _normalize_result(outcome),
                       !.collected["knowledge"] =
                           _normalize_result(report.branch["knowledge"].result),
                       !.collected["graph"] =
                           _normalize_result(report.branch["graph"].result)]

ReportFrame ==
    UNCHANGED <<run_vars, next_id, store_vars, client_vars, snapshots, tracer_vars, planned>>

\* generate_report has just called the pipeline
InitReport ==
    /\ user_input = CalcRequest
    /\ plan = <<>>
    /\ current_step_index = 0
    /\ needs_replan = FALSE
    /\ reflexion_memories = <<>>
    /\ error_message = NoneVal
    /\ error_count = 0
    /\ next_agent = None
    /\ optimization_result = <<>>
    /\ final_response = "none"
    /\ node = "planner"
    /\ interrupt_value = <<>>
    /\ hitl_rounds = 0
    /\ replans = 0
    /\ next_id = 1
    /\ trace = <<>>
    /\ hitl_store = EmptyStore
    /\ hitl_record = EmptyStore
    /\ now = 0
    /\ ticks = 0
    /\ waiter = NoWaiter
    /\ confirms = 0
    /\ last_confirm = NoConfirm
    /\ execute_result = NoOutcome
    /\ reflexion_result = NoReflexion
    /\ context = NoContext
    /\ snapshots = EmptyStore
    /\ tracer_queue = 0
    /\ queues = <<>>
    /\ emitters = <<>>
    /\ stream = [pc |-> "none"]
    /\ yielded = <<>>
    \* gather has scheduled the three to_thread calls; no thread runs yet
    /\ report = [pc |-> "gather",
                 branch |-> [b \in Branches |-> [pc |-> "scheduled", result |-> NoValue]],
                 calc |-> [pc |-> "idle", available |-> NoValue, result |-> NoValue],
                 collected |-> [k \in Branches \cup {"calc"} |-> NoValue]]
    /\ planned = [pc |-> "none"]

NextReport ==
    \/ ((\E b \in Branches : BranchStart(b)) /\ ReportFrame)
    \/ ((\E b \in Branches : BranchFinish(b)) /\ ReportFrame)
    \/ (CalcStart /\ ReportFrame)
    \/ (CalcFinish /\ ReportFrame)

SpecReport == InitReport /\ [][NextReport]_vars

(***************************************************************************)
(* The planner called on its own: create_plan, replan and the calls of     *)
(* _fallback_plan they make, on every request text.                        *)
(***************************************************************************)
\* every request text: a chat phrase is short and holds no keyword, and each
\* keyword of the calculation group is a domain keyword
PlannerTexts ==
    {Text(TRUE, TRUE, FALSE, FALSE, FALSE, FALSE, FALSE)}
    \cup {t \in {Text(FALSE, short, domain, data, calc, rep, graph) :
                    short \in BOOLEAN, domain \in BOOLEAN, data \in BOOLEAN,
                    calc \in BOOLEAN, rep \in BOOLEAN, graph \in BOOLEAN} :
            t.need_calc => t.domain}

\* the calls of _fallback_plan the planner makes for a request: from
\* create_plan, which has returned before for a chat request, from
\* _parse_plan with the empty text, and from replan, which planner_node calls
\* only on a run that has a plan
FallbackCalls(t) ==
    {[text |-> EmptyText, replan |-> FALSE]}
    \cup (IF _is_chat_intent(t) THEN {}
          ELSE {[text |-> t, replan |-> FALSE], [text |-> t, replan |-> TRUE]})

\* what the collaborator may answer the planner: as in a run, and plans
\* of steps with any kind of agent name
PlannerAnswers ==
    CollabPlans
    \cup {CollabPlan(TRUE, FALSE, [i \in 1..Len(q) |-> RawStep(q[i], 0)]) :
            q \in SeqsUpTo({AgentText(a, {}) : a \in AgentNames}
                           \cup {AgentText("other", w) :
                                    w \in {{}, {"data"}, {"calc"}, {"compute"}, {"graph"},
                                           {"report"}, {"data", "calc"}, {"graph", "report"},
                                           {"compute", "report"}}},
                           MaxNewSteps) \ {<<>>}}

CreatePlanCall ==
    /\ planned.pc = "ready"
    /\ \E out \in PlannerAnswers :
          planned' = [pc |-> "create_plan", text |-> user_input, replan |-> FALSE,
                      out |-> out, result |-> create_plan(user_input, out)]

ReplanCall ==
    /\ planned.pc = "ready"
    /\ ~_is_chat_intent(user_input)
    /\ \E out \in PlannerAnswers :
          planned' = [pc |-> "replan", text |-> user_input, replan |-> TRUE,
                      out |-> out, result |-> replan(user_input, out)]

FallbackCall ==
    /\ planned.pc = "ready"
    /\ \E call \in FallbackCalls(user_input) :
          planned' = [pc |-> "_fallback_plan", text |-> call.text, replan |-> call.replan,
                      out |-> CollabPlan(FALSE, FALSE, <<>>),
                      result |-> _fallback_plan(call.text, call.replan)]

PlannerFrame ==
    UNCHANGED <<run_vars, next_id, store_vars, client_vars, snapshots, tracer_vars, report>>

\* a planner about to be called with a request
InitPlanner ==
    /\ user_input \in PlannerTexts
    /\ plan = <<>>
    /\ current_step_index = 0
    /\ needs_replan = FALSE
    /\ reflexion_memories = <<>>
    /\ error_message = NoneVal
    /\ error_count = 0
    /\ next_agent = None
    /\ optimization_result = <<>>
    /\ final_response = "none"
    /\ node = "planner"
    /\ interrupt_value = <<>>
    /\ hitl_rounds = 0
    /\ replans = 0
    /\ next_id = 1
    /\ trace = <<>>
    /\ hitl_store = EmptyStore
    /\ hitl_record = EmptyStore
    /\ now = 0
    /\ ticks = 0
    /\ waiter = NoWaiter
    /\ confirms = 0
    /\ last_confirm = NoConfirm
    /\ execute_result = NoOutcome
    /\ reflexion_result = NoReflexion
    /\ context = NoContext
    /\ snapshots = EmptyStore
    /\ tracer_queue = 0
    /\ queues = <<>>
    /\ emitters = <<>>
    /\ stream = [pc |-> "none"]
    /\ yielded = <<>>
    /\ report = [pc |-> "none"]
    /\ planned = [pc |-> "ready"]

\* after a call of create_plan with an answer, planner_node run on the
\* same request and answer, and executor_node on the plan it stores
NextPlanner ==
    \/ (CreatePlanCall /\ PlannerFrame)
    \/ (ReplanCall /\ PlannerFrame)
    \/ (FallbackCall /\ PlannerFrame)
    \/ (planned.pc = "create_plan" /\ PlannerWith({planned.out}))
    \/ ExecutorNode

SpecPlanner == InitPlanner /\ [][NextPlanner]_vars

(***************************************************************************)
(* AgentTracer.metrics: emit hands every event it appends to               *)
(* _update_metrics, so the counters are the numbers of events of each type *)
(***************************************************************************)
metrics(events) ==
    LET count(type) == Cardinality({i \in 1..Len(events) : events[i].type = type})
    IN  [steps_completed |-> count("step_completed"),
         steps_failed |-> count("step_failed"),
         tool_calls |-> count("tool_called"),
         llm_calls |-> count("agent_thinking"),
         retries |-> count("reflexion")]

(***************************************************************************)
(* Properties of the plan-execute run.                                     *)
(***************************************************************************)
\* C1: in every reachable state of a run, 0 <= current_step_index <= len(plan)
C1_IndexWithinPlan ==
    /\ 0 <= current_step_index
    /\ current_step_index <= Len(plan)

\* a replan has rebuilt the list and the run has moved past its last task
C1_Witness ==
    /\ replans > 0
    /\ ~needs_replan
    /\ Len(plan) > 1
    /\ current_step_index = Len(plan)

\* C3: no task's retry_count exceeds max_retries_per_step, and reflexion_node
\* run on a failed task whose retry_count equals the budget does not retry
\* it: it leaves the task as it is and chooses replan or skip
C3_RetryWithinBudget ==
    [][/\ \A i \in 1..Len(plan') : plan'[i].retry_count <= DefaultMaxRetries
       /\ (/\ node = "reflexion"
           /\ current_step_index < Len(plan)
           /\ CurrentStep.retry_count = DefaultMaxRetries)
          => /\ plan' = plan
             /\ \/ needs_replan' /\ current_step_index' = current_step_index
                \/ ~needs_replan' /\ current_step_index' = current_step_index + 1]_vars

\* a task that failed with its budget used up has been skipped
C3_Witness ==
    \E i \in 1..Len(plan) :
        /\ plan[i].retry_count = DefaultMaxRetries
        /\ plan[i].status = "failed"
        /\ current_step_index >= i

\* C2: outside planner_node the index never decreases, and planner_node
\* handling a replan sets it to the number of completed tasks it keeps,
\* never to less
C2_IndexNeverBelowCompleted ==
    [][/\ node # "planner" => current_step_index' >= current_step_index
       /\ (node = "planner" /\ needs_replan)
          => current_step_index' = Len(CompletedSteps(plan))]_vars

\* the text an executor returned is a soft failure: a string of at most
\* ShortTextLimit characters that starts with an error marker, leading
\* whitespace and letter case set aside
SoftFailureText(value) ==
    /\ value.kind = "str"
    /\ HeadLen(value.head) + value.body <= ShortTextLimit
    /\ Lower(value.head) \in error_prefixes

C8_ReplanKeepsCompleted ==
    [][(node = "planner" /\ needs_replan)
       => LET completed == CompletedSteps(plan)
          IN  /\ Len(plan') >= Len(completed)
              /\ SubSeq(plan', 1, Len(completed)) = completed
              /\ \A i \in (Len(completed) + 1)..Len(plan') :
                    /\ plan'[i].step_number = i
                    /\ plan'[i].status = "pending"
              /\ current_step_index' = Len(completed)]_vars

\* C10: when execute() raises or returns a soft-failure text the wrapper
\* hands over to the evaluator with the current task failed and the error
\* text stored on it, the other tasks untouched, step_failed emitted last,
\* error_count one higher, the index and the final response unchanged
C10_FailureRecorded ==
    [][(/\ node \in AgentNames
        /\ current_step_index < Len(plan)
        /\ (execute_result'.raised \/ SoftFailureText(execute_result'.value)))
       => /\ node' = "step_evaluator"
          /\ Len(plan') = Len(plan)
          /\ plan'[current_step_index + 1].status = "failed"
          /\ plan'[current_step_index + 1].error = execute_result'.value
          /\ \A i \in 1..Len(plan) : i # current_step_index + 1 => plan'[i] = plan[i]
          /\ trace'[Len(trace')] = Event("step_failed", CurrentStep.step_number)
          /\ error_count' = error_count + 1
          /\ current_step_index' = current_step_index
          /\ final_response' = final_response]_vars

\* execute() has raised for the second time in the run
C10_Witness ==
    /\ node = "step_evaluator"
    /\ execute_result.raised
    /\ CurrentStep.status = "failed"
    /\ CurrentStep.error = execute_result.value
    /\ error_count = 2

\* C15: every execution of synthesizer_node appends to the trace zero or
\* more response_chunk events and then one workflow_completed event, the
\* only one of the run and its last event
C15_CompletedEmittedLast ==
    [][node = "synthesizer"
       => LET new == SubSeq(trace', Len(trace) + 1, Len(trace'))
          IN  /\ Len(trace') > Len(trace)
              /\ SubSeq(trace', 1, Len(trace)) = trace
              /\ new[Len(new)] = Event("completed", 0)
              /\ \A i \in 1..(Len(new) - 1) : new[i].type = "response_chunk"
              /\ \A i \in 1..Len(trace) : trace[i].type # "completed"
              /\ node' = "end"]_vars

\* the merge failed after its first token and the run has ended
C15_Witness ==
    /\ node = "end"
    /\ final_response = "joined"
    /\ Len(trace) > 3
    /\ trace[Len(trace)] = Event("completed", 0)
    /\ trace[Len(trace) - 1] = ResponseChunk("joined")
    /\ trace[Len(trace) - 2] = ResponseChunk("token")

\* C20: with no completed task and no terminal response synthesizer_node
\* sets the final response to the fixed apology and emits it as one
\* response_chunk, followed by workflow_completed
C20_ApologyWhenNothingCompleted ==
    [][(/\ node = "synthesizer"
        /\ \A i \in 1..Len(plan) : plan[i].status # "completed"
        /\ final_response = "none")
       => /\ final_response' = "apology"
          /\ trace' = trace \o <<ResponseChunk("apology"), Event("completed", 0)>>]_vars

\* a run of two tasks, both failed and skipped, has ended with the apology
C20_Witness ==
    /\ node = "end"
    /\ final_response = "apology"
    /\ Len(plan) >= 2
    /\ \A i \in 1..Len(plan) : plan[i].status = "failed"

\* C16: a run that has ended with the apology has emitted a workflow_error
\* event and has left no request of its session pending
C16_FatalErrorEndsCleanly ==
    (node = "end" /\ final_response = "apology")
    => /\ \E i \in 1..Len(trace) : trace[i].type = "error"
       /\ \A key \in DOMAIN hitl_store :
             key[1] = RunSession => hitl_store[key].status # "pending"

\* C19: at most one task is in_progress, it is the task at current_step_index,
\* and a task is in_progress exactly while the one executor node the run is in
\* has been entered and has not returned
C19_OneTaskAtATime ==
    /\ \A i \in 1..Len(plan) :
          plan[i].status = "in_progress"
          => /\ i = current_step_index + 1
             /\ node = plan[i].agent
    /\ node \in AgentNames
          => /\ current_step_index < Len(plan)
             /\ CurrentStep.status = "in_progress"
    /\ Cardinality({i \in 1..Len(plan) : plan[i].status = "in_progress"}) <= 1

\* the second task of a plan is being executed after the first was completed
C19_Witness ==
    /\ Len(plan) >= 2
    /\ current_step_index = 1
    /\ plan[1].status = "completed"
    /\ plan[2].status = "in_progress"
    /\ node = plan[2].agent

\* C21: when exactly one task is completed the final response is that task's
\* result as it is, and the collaborator's merge is not what produced it
C21_SingleResultUnmodified ==
    [][(node = "synthesizer" /\ node' = "end" /\ Len(CompletedSteps(plan)) = 1)
       => final_response' = "result"]_vars

\* the executions the run can still spend: for every task from
\* current_step_index on, one execution and the retries it has left
RECURSIVE BudgetFrom(_, _)
BudgetFrom(p, i) ==
    IF i > Len(p) THEN 0
    ELSE 1 + (DefaultMaxRetries - p[i].retry_count) + BudgetFrom(p, i + 1)

RemainingBudget == BudgetFrom(plan, current_step_index + 1)

C24_DecisionOrder ==
    [][(node = "reflexion" /\ current_step_index < Len(plan))
       => LET reflexion == reflexion_result'
              step == CurrentStep
          IN  IF reflexion.should_retry /\ step.retry_count < DefaultMaxRetries
              THEN /\ plan' = [plan EXCEPT ![current_step_index + 1] =
                                 [step EXCEPT !.status = "pending", !.error = NoneVal,
                                              !.retry_count = step.retry_count + 1]]
                   /\ current_step_index' = current_step_index
                   /\ ~needs_replan'
              ELSE IF reflexion.should_replan
              THEN /\ needs_replan'
                   /\ plan' = plan
                   /\ current_step_index' = current_step_index
              ELSE /\ current_step_index' = current_step_index + 1
                   /\ plan' = plan
                   /\ ~needs_replan']_vars

\* a task that has used up its retries was abandoned although the reflexion
\* said retry
C24_Witness ==
    /\ reflexion_result.should_retry
    /\ ~reflexion_result.should_replan
    /\ current_step_index > 0
    /\ plan[current_step_index].status = "failed"
    /\ plan[current_step_index].retry_count = DefaultMaxRetries
    /\ node \in {"executor", "synthesizer"}

\* C25: reflexion_node on a failed task appends exactly one entry to
\* reflexion_memories whatever it decides, and no other step of the run,
\* a replan included, changes the list
C25_MemoriesAppendOnly ==
    [][IF node = "reflexion" /\ current_step_index < Len(plan)
       THEN /\ Len(reflexion_memories') = Len(reflexion_memories) + 1
            /\ SubSeq(reflexion_memories', 1, Len(reflexion_memories)) = reflexion_memories
            /\ reflexion_memories'[Len(reflexion_memories')] = CurrentStep.step_id
       ELSE reflexion_memories' = reflexion_memories]_vars

\* two memories are kept after a replan has replaced the failed task
C25_Witness ==
    /\ Len(reflexion_memories) >= 2
    /\ replans > 0
    /\ node = "executor"
    /\ \A i \in 1..Len(plan) : plan[i].step_id # reflexion_memories[1]

\* C26: while the run is suspended at the gate exactly one request of its
\* session is pending, and once the resume has gone through hitl_check_node
\* get_pending_request finds none
C26_OnePendingWhileSuspended ==
    IF node = "interrupted"
    THEN Cardinality(PendingIds(RunSession)) = 1
    ELSE PendingIds(RunSession) = {}

\* C28: when run_plan_execute returns, the run is not suspended at an
\* interrupt: it has gone through synthesizer_node
C28_ReturnsOnlyWhenEnded == Returned => node = "end"

\* C30: when the reflexion comes from the rule-based fallback, reflexion_node
\* replans for an error text that signals a missing parameter or a permission
\* problem and retries for every other error text
C30_FallbackDecision ==
    [][(node = "reflexion" /\ current_step_index < Len(plan) /\ ~reflexion_result'.ok)
       => LET step == CurrentStep
              error == IF step.error # NoneVal THEN step.error ELSE error_message
          IN  IF MentionsMissing(error)
              THEN /\ needs_replan'
                   /\ plan' = plan
                   /\ current_step_index' = current_step_index
              ELSE /\ ~needs_replan'
                   /\ current_step_index' = current_step_index
                   /\ plan'[current_step_index + 1].status = "pending"
                   /\ plan'[current_step_index + 1].retry_count = step.retry_count + 1]_vars

(***************************************************************************)
(* Properties of the dispatch wrapper.                                     *)
(***************************************************************************)
\* C9: when execute() returns a soft-failure text the wrapper marks the
\* task failed and the evaluator routes to reflexion; on every other normal
\* return the wrapper marks the task completed and stores the value
C9_SoftFailureMarksFailed ==
    [][/\ (/\ node \in AgentNames
           /\ current_step_index < Len(plan)
           /\ ~execute_result'.raised)
          => LET step == plan'[current_step_index + 1]
             IN  IF SoftFailureText(execute_result'.value)
                 THEN step.status = "failed"
                 ELSE step.status = "completed" /\ step.result = execute_result'.value
       /\ (/\ node = "step_evaluator"
           /\ execute_result.called
           /\ ~execute_result.raised)
          => IF SoftFailureText(execute_result.value)
             THEN node' = "reflexion"
             ELSE node' = "hitl_check"]_vars

\* an upper-case marker after leading whitespace was returned and the task
\* is failed
C9_Witness ==
    /\ node = "step_evaluator"
    /\ execute_result.called
    /\ ~execute_result.raised
    /\ execute_result.value.head = "ERROR:"
    /\ execute_result.value.ws > 0
    /\ CurrentStep.status = "failed"

(***************************************************************************)
(* Properties of the request store.                                        *)
(***************************************************************************)
\* C4: a confirm_hitl call that repeats the session and request_id of the
\* call before it, whose response the record holds, changes neither the
\* status nor the stored response of any request, nor the run, nor its
\* events
C4_SecondResumeNoOp ==
    [][(/\ confirms' = confirms + 1
        /\ last_confirm.status = "resumed"
        /\ last_confirm'.session = last_confirm.session
        /\ last_confirm'.request_id = last_confirm.request_id
        /\ LET key == StoreKey(last_confirm.session, last_confirm.request_id)
           IN  /\ Live(key)
               /\ hitl_store[key].status = "responded"
               /\ hitl_store[key].response.selected_option = last_confirm.selected_option)
       => /\ \A key \in DOMAIN hitl_store :
                /\ hitl_store'[key].status = hitl_store[key].status
                /\ hitl_store'[key].response = hitl_store[key].response
          /\ hitl_record' = hitl_record
          /\ UNCHANGED run_vars]_vars

\* C5: a confirm_hitl call for which the session has no pending request
\* with the request_id it resolves is not answered "resumed" and changes
\* neither the request store nor the run
C5_ResumeWithoutPendingRejected ==
    [][(/\ confirms' = confirms + 1
        /\ LET key == StoreKey(last_confirm'.session, last_confirm'.request_id)
           IN  ~(Live(key) /\ hitl_store[key].status = "pending"))
       => /\ last_confirm'.status # "resumed"
          /\ UNCHANGED store_vars
          /\ UNCHANGED run_vars]_vars

\* C6: a stored request is pending, responded or timed out, and once it is
\* not pending neither its status nor its stored response changes again
C6_SingleTransition ==
    [][\A key \in DOMAIN hitl_store :
          /\ hitl_store'[key].status \in {"pending", "responded", "timeout"}
          /\ hitl_store[key].status # "pending"
             => /\ hitl_store'[key].status = hitl_store[key].status
                /\ hitl_store'[key].response = hitl_store[key].response]_vars

(***************************************************************************)
(* Properties of the snapshot store.                                       *)
(***************************************************************************)
\* C11: while the run is suspended at the HITL gate, load(session_id)
\* returns the workflow state saved right before the suspension
C11_CheckpointBeforeSuspension ==
    node = "interrupted" => load(snapshots, RunSession) = <<[plan |-> plan, current_step_index |-> current_step_index]>>

(***************************************************************************)
(* Properties of the tracer.                                               *)
(***************************************************************************)
\* the trace events among what the stream has yielded
IsTraceItem(item) == item.kind = "trace"

\* C12: the trace events the stream has yielded are the first events of
\* tracer.events, each once and in the order of the list, and once the
\* stream has its queue and no emit call is under way every event of the
\* list has been yielded or waits in that queue
C12_NoEventLost ==
    LET got == SelectSeq(yielded, IsTraceItem)
    IN  /\ Len(got) <= Len(trace)
        /\ \A i \in 1..Len(got) : got[i] = StreamItem(trace[i])
        /\ (/\ stream.pc \in {"loop", "waiting"}
            /\ \A t \in EmitThreads : emitters[t].pc = "idle")
           => Len(got) + Len(queues[stream.queue]) = Len(trace)

\* C13: once the stream has ended it yields nothing more; yielding a
\* workflow_completed or workflow_error event ends it; and it ends only on
\* such an event or, with its own error, when its deadline has passed
C13_StreamEndsOnTerminal ==
    [][/\ stream.pc = "done" => (yielded' = yielded /\ stream' = stream)
       /\ (/\ yielded' # yielded
           /\ yielded'[Len(yielded')].kind = "trace"
           /\ yielded'[Len(yielded')].event \in {"completed", "error"})
          => stream'.pc = "done"
       /\ (stream.pc # "done" /\ stream'.pc = "done")
          => /\ yielded' # yielded
             /\ \/ /\ yielded'[Len(yielded')].kind = "trace"
                   /\ yielded'[Len(yielded')].event \in {"completed", "error"}
                \/ /\ yielded'[Len(yielded')] = StreamTimeoutItem
                   /\ now >= stream.deadline]_vars

\* the stream has ended on workflow_error while another event is queued
C13_Witness ==
    /\ stream.pc = "done"
    /\ yielded # <<>>
    /\ yielded[Len(yielded)] = StreamItem(Event("error", 0))
    /\ queues[stream.queue] # <<>>

\* C14: a wait of the stream lasts at most the heartbeat interval; when it
\* is over without an event the stream yields a heartbeat, whose tag is no
\* trace event type, takes nothing from any queue, and goes on with its loop
C14_HeartbeatOnIdle ==
    [][/\ stream'.pc = "waiting"
          => stream'.wait_until <= stream'.wait_start + HeartbeatInterval
       /\ (yielded' # yielded /\ yielded'[Len(yielded')].kind = "heartbeat")
          => /\ yielded'[Len(yielded')].event \notin
                    {"plan_created", "plan_updated", "step_started", "step_completed",
                     "step_failed", "agent_thinking", "tool_called", "tool_result",
                     "llm_streaming", "hitl_waiting", "hitl_resumed", "reflexion",
                     "replan", "response_chunk", "completed", "error"}
             /\ queues' = queues
             /\ stream'.pc = "loop"
             /\ now >= stream.wait_start
             /\ now >= stream.wait_until]_vars

\* a heartbeat was yielded while an event was queued, and the event came
\* right after it
C14_Witness ==
    \E i \in 1..(Len(yielded) - 1) :
        /\ yielded[i] = HeartbeatItem
        /\ yielded[i + 1].kind = "trace"
        /\ now >= HeartbeatInterval

\* C17: when the wait for a human response times out, the request that is still
\* pending is marked timed-out and the run is no longer suspended
C17_TimeoutMarksPending ==
    [][(/\ waiter.pc = "polling"
        /\ now >= waiter.deadline
        /\ waiter'.pc = "done"
        /\ waiter.request_id \in DOMAIN hitl_record
        /\ hitl_record[waiter.request_id].status = "pending")
       => /\ hitl_record'[waiter.request_id].status = "timeout"
          /\ node' # "interrupted"]_vars

(***************************************************************************)
(* Properties of the report pipeline.                                      *)
(***************************************************************************)
\* the collected entry of each branch is the normalized result of that branch
CollectedOwnResults ==
    report.pc = "collected" =>
        \A b \in Branches :
            /\ report.collected[b].src = b
            /\ IF report.branch[b].result.kind = "exception"
               THEN report.collected[b] = Dictionary({"error"}, {}, b)
               ELSE /\ report.collected[b].kind = "dict"
                    /\ report.collected[b] = _normalize_result(report.branch[b].result)
                    /\ report.branch[b].result.kind = "dict"
                          => report.collected[b] = report.branch[b].result

\* C18: a branch that raises yields an error payload for that branch only and
\* the results of the other branches are kept; the calculation starts only
\* after the three branches have finished, and it has run whenever the results
\* are collected, also when branches failed
C18_BranchFailureIsolated ==
    /\ [](CollectedOwnResults /\ (report.pc = "collected" => report.calc.pc = "done"))
    /\ [][(report.calc.pc = "idle" /\ report'.calc.pc # "idle")
          => \A b \in Branches : report.branch[b].pc = "done"]_vars

\* the results are collected after the data branch raised while the knowledge
\* branch returned a result
C18_Witness ==
    /\ report.pc = "collected"
    /\ report.branch["data"].result.kind = "exception"
    /\ report.branch["knowledge"].result.kind = "str"
    /\ report.collected["knowledge"].keys = {"pipeline"}

\* the three branches are inside agent.execute at the same time
C18_ConcurrentBranches == \A b \in Branches : report.pc = "gather" /\ report.branch[b].pc = "running"

(***************************************************************************)
(* Properties of the planner.                                              *)
(***************************************************************************)
\* C22: a plan the rule-based fallback returns has a task, unless the text is
\* classified as chat; then the answer is a direct response with no task
C22_FallbackPlanNonEmpty ==
    planned.pc = "_fallback_plan" =>
        IF ~planned.replan /\ _is_chat_intent(planned.text)
        THEN planned.result.direct_response /\ planned.result.plan = <<>>
        ELSE /\ ~_is_chat_intent(planned.text)
             /\ ~planned.result.direct_response
             /\ planned.result.plan # <<>>

\* the fallback planned a long request that holds none of its keywords
C22_Witness ==
    /\ planned.pc = "_fallback_plan"
    /\ ~_is_chat_intent(planned.text)
    /\ ~(planned.text.need_data \/ planned.text.need_calc \/ planned.text.need_graph
         \/ planned.text.need_report)
    /\ Len(planned.result.plan) = 1

\* C29: when the collaborator's plan normalizes to no task for a request that
\* is not chat, create_plan and replan return the rule-based plan of that
\* request, which has a task
C29_EmptyPlanFallsBackOnRequest ==
    (/\ planned.pc \in {"create_plan", "replan"}
     /\ ~_is_chat_intent(planned.text)
     /\ planned.out.ok /\ ~planned.out.direct /\ planned.out.plan = <<>>)
    => /\ ~planned.result.direct_response
       /\ planned.result.plan # <<>>
       /\ planned.result = _fallback_plan(planned.text, planned.replan)

\* C27: a response stored for a request is not lost to the waiter's timeout:
\* when the waiter of an answered request whose key is still stored ends, the
\* request stays responded with that response and the waiter returns it
C27_ResponseSurvivesTimeout ==
    [][(/\ waiter.pc = "polling"
        /\ waiter'.pc = "done"
        /\ Live(StoreKey(waiter.session, waiter.request_id))
        /\ hitl_store[StoreKey(waiter.session, waiter.request_id)].status = "responded")
       => /\ hitl_store'[StoreKey(waiter.session, waiter.request_id)].status = "responded"
          /\ hitl_record'[waiter.request_id] = hitl_record[waiter.request_id]
          /\ waiter'.result = "response"]_vars

(***************************************************************************)
(* Properties of replanning, the gate and the dispatch bookkeeping.        *)
(***************************************************************************)
\* C31: after planner_node has handled a replan, every task of the new plan
\* is either a completed task of the old plan with the retry_count it had,
\* or a new task with retry_count 0 and status pending
C31_ReplanResetsOnlyNewTasks ==
    [][(node = "planner" /\ needs_replan)
       => \A i \in 1..Len(plan') :
             LET kept == {j \in 1..Len(plan) : plan[j].step_id = plan'[i].step_id}
             IN  IF kept # {}
                 THEN \A j \in kept :
                         /\ IsCompleted(plan[j])
                         /\ plan'[i].status = "completed"
                         /\ plan'[i].retry_count = plan[j].retry_count
                 ELSE /\ plan'[i].step_id >= next_id
                      /\ plan'[i].retry_count = 0
                      /\ plan'[i].status = "pending"]_vars

\* a replan has just kept a completed task that was retried and put a new
\* task after it
C31_Witness ==
    /\ trace # <<>>
    /\ trace[Len(trace)].type = "plan_updated"
    /\ \E i \in 1..Len(plan) : IsCompleted(plan[i]) /\ plan[i].retry_count > 0
    /\ \E i \in 1..Len(plan) : plan[i].status = "pending" /\ plan[i].retry_count = 0

\* C32: in a run on a request that _is_chat_intent accepts, the planner's
\* result is the direct response whatever the collaborator would answer, the
\* plan stays empty, no task is started or dispatched, and the ended run
\* holds the planner's response, emitted as its one response_chunk
C32_ChatFastPath ==
    _is_chat_intent(user_input)
    => /\ \A out \in CollabPlans : create_plan(user_input, out) = DirectResult
       /\ plan = <<>>
       /\ node \in {"planner", "executor", "synthesizer", "end"}
       /\ \A i \in 1..Len(trace) :
             trace[i].type \notin {"step_started", "agent_thinking", "tool_called"}
       /\ node \in {"executor", "synthesizer", "end"} => final_response = "greeting"
       /\ node = "end"
          => /\ Cardinality({i \in 1..Len(trace) : trace[i].type = "response_chunk"}) = 1
             /\ \E i \in 1..Len(trace) : trace[i] = ResponseChunk("greeting")

\* a run on a greeting has ended
C32_Witness ==
    /\ _is_chat_intent(user_input)
    /\ node = "end"
    /\ final_response = "greeting"

\* C33: a resume of a suspended run stores the response, writes to
\* optimization_result the scheme at the selected index when that index is
\* one of 0..n-1 and the first scheme otherwise, emits hitl_resumed last and
\* moves the index on by one
C33_ResumeResolvesOption ==
    [][node = "interrupted" /\ node' # "interrupted"
       => LET schemes == interrupt_value[1].schemes
              answered == hitl_store'[StoreKey(RunSession, next_id)]
              k == answered.response.selected_option
          IN  /\ answered.status = "responded"
              /\ optimization_result' =
                    <<IF 0 <= k /\ k < Len(schemes) THEN schemes[k + 1] ELSE schemes[1]>>
              /\ trace'[Len(trace')].type = "hitl_resumed"
              /\ current_step_index' = current_step_index + 1]_vars

\* C35: the option run_plan_execute resumes with is the first scheme of
\* lowest energy among those with end pressure above 0.1 MPa, the first
\* scheme when there is none, and it is not a scheme the gate flags as high
\* risk when the request offers one that is not flagged
C35_AutoApprovalAvoidsHighRisk ==
    [][node = "interrupted" /\ hitl_rounds' = hitl_rounds + 1
       => LET schemes == interrupt_value[1].schemes
              options == HitlOptions(schemes)
              k == hitl_store'[StoreKey(RunSession, next_id)].response.selected_option + 1
              feasible == {i \in 1..Len(schemes) : schemes[i].end_pressure > RiskThreshold}
          IN  /\ feasible = {} => k = 1
              /\ feasible # {}
                 => /\ k \in feasible
                    /\ \A j \in feasible :
                          schemes[k].energy_consumption <= schemes[j].energy_consumption
              /\ (\E i \in 1..Len(options) : options[i].risk_level # "high")
                 => options[k].risk_level # "high"]_vars

RECURSIVE BracketPhase(_, _, _)
\* where the events from position i on leave a reader of events who is in
\* phase: "idle" between dispatches, "started" after step_started, "called"
\* after tool_called, "bad" once an event comes out of turn
BracketPhase(events, i, phase) ==
    IF i > Len(events) \/ phase = "bad" THEN phase
    ELSE LET type == events[i].type
         IN  IF type = "step_started"
             THEN BracketPhase(events, i + 1, IF phase = "idle" THEN "started" ELSE "bad")
             ELSE IF type = "tool_called"
             THEN BracketPhase(events, i + 1, IF phase = "started" THEN "called" ELSE "bad")
             ELSE IF type \in {"step_completed", "step_failed"}
             THEN BracketPhase(events, i + 1, IF phase = "called" THEN "idle" ELSE "bad")
             ELSE BracketPhase(events, i + 1, phase)

\* C37: in the trace of a run each step_started is followed, before the
\* next step_started, by one tool_called and after it by exactly one of
\* step_completed and step_failed, and these events occur nowhere else; the
\* last step_started lacks them exactly while its dispatch is in flight;
\* when no dispatch is in flight steps_completed + steps_failed = tool_calls
\* and steps_failed = error_count.  Stated step by step: the run starts
\* with an empty trace and no error, and the events each step appends keep
\* the bracket and raise the counters alike
C37_DispatchBracketed ==
    /\ trace = <<>> /\ error_count = 0
    /\ [][LET in_flight(n) == n \in AgentNames
              emitted == SubSeq(trace', Len(trace) + 1, Len(trace'))
              counted == metrics(emitted)
          IN  /\ Len(trace') >= Len(trace)
              /\ SubSeq(trace', 1, Len(trace)) = trace
              /\ BracketPhase(emitted, 1, IF in_flight(node) THEN "started" ELSE "idle")
                    = (IF in_flight(node') THEN "started" ELSE "idle")
              /\ counted.steps_failed = error_count' - error_count
              /\ counted.steps_completed + counted.steps_failed = counted.tool_calls]_vars

\* a run has ended after a task failed, was started again and completed
C37_Witness ==
    /\ node = "end"
    /\ metrics(trace).steps_failed > 0
    /\ metrics(trace).steps_completed > 0
    /\ metrics(trace).tool_calls >= 2

C36_OrdinalsIncrease ==
    \A i \in 1..Len(plan) : \A j \in 1..Len(plan) :
        i < j => plan[i].step_number < plan[j].step_number

\* C39: in every state of a run a task carries an error exactly when its
\* status is failed, and every task the index has passed is completed, or
\* failed with its error
C39_ErrorIffFailed ==
    /\ \A i \in 1..Len(plan) : (plan[i].error # NoneVal) <=> (plan[i].status = "failed")
    /\ \A i \in 1..Len(plan) :
          i <= current_step_index => plan[i].status \in {"completed", "failed"}

\* a task was abandoned with its error, and a later task that had failed
\* and was retried is completed or in progress without one
C39_Witness ==
    \E i \in 1..Len(plan) : \E j \in 1..Len(plan) :
        /\ i < j
        /\ i <= current_step_index
        /\ plan[i].status = "failed"
        /\ plan[i].error # NoneVal
        /\ plan[j].retry_count > 0
        /\ plan[j].status \in {"in_progress", "completed"}
        /\ plan[j].error = NoneVal

\* C38: a dispatch that leaves its task failed leaves pipeline_data,
\* oil_property_data, calculation_result, knowledge_context and
\* report_result as they were; a dispatch that completes its task changes
\* no field but those of its executor and stores the decoded result in its
\* executor's field; no other node changes any of the five
C38_FailureLeavesContext ==
    [][IF node \in AgentNames /\ current_step_index < Len(plan)
       THEN IF plan'[current_step_index + 1].status = "failed"
            THEN context' = context
            ELSE LET own == CASE node = "data_agent" -> {"pipeline_data", "oil_property_data"}
                              [] node = "calc_agent" -> {"calculation_result"}
                              [] node = "knowledge_agent" -> {"knowledge_context"}
                              [] node = "report_agent" -> {"report_result"}
                              [] OTHER -> {}
                     value == execute_result'.value
                 IN  /\ \A field \in DOMAIN context :
                           context'[field] # context[field] => field \in own
                     /\ node = "data_agent" => context'.pipeline_data = _to_result_data(value)
                     /\ node = "calc_agent"
                        => context'.calculation_result = _to_result_data(value)
                     /\ node = "knowledge_agent"
                        => context'.knowledge_context = _to_result_text(value)
                     /\ node = "report_agent" => context'.report_result = _to_result_data(value)
       ELSE context' = context]_vars

\* a task failed after an earlier task had written its result to the
\* context, and the context still holds that result alone
C38_Witness ==
    /\ node = "step_evaluator"
    /\ execute_result.called
    /\ current_step_index < Len(plan)
    /\ CurrentStep.status = "failed"
    /\ CurrentStep.agent = "report_agent"
    /\ context.calculation_result # NoneVal
    /\ context.report_result = NoneVal

\* C40: every task of a plan the planner returns, from the collaborator's
\* answer, from the fallback or from a replan, names one of the five
\* executors: a known name stays, a name that is not known becomes the
\* executor of one of the words it contains and the knowledge executor when
\* it contains none; every task of the plan planner_node stores names one
\* of the five, and the executor node that executor_node routes to is the
\* one the current task names
C40_TasksNameKnownExecutors ==
    LET executor_of(word) == CASE word = "data" -> "data_agent"
                               [] word \in {"calc", "compute"} -> "calc_agent"
                               [] word = "graph" -> "graph_agent"
                               [] word = "report" -> "report_agent"
        parsed == /\ planned.pc \in {"create_plan", "replan"}
                  /\ planned.out.ok
                  /\ ~planned.out.direct
                  /\ planned.out.plan # <<>>
                  /\ ~(planned.pc = "create_plan" /\ _is_chat_intent(planned.text))
    IN  /\ planned.pc # "ready"
           => \A i \in 1..Len(planned.result.plan) :
                 planned.result.plan[i].agent \in AgentNames
        /\ parsed
           => /\ Len(planned.result.plan) = Len(planned.out.plan)
              /\ \A i \in 1..Len(planned.out.plan) :
                    LET written == planned.out.plan[i].agent
                        named == planned.result.plan[i].agent
                    IN  IF written.value \in AgentNames THEN named = written.value
                        ELSE IF written.words = {} THEN named = "knowledge_agent"
                        ELSE \E word \in written.words : named = executor_of(word)
        /\ \A i \in 1..Len(plan) : plan[i].agent \in AgentNames
        /\ node \notin {"planner", "executor", "synthesizer"}
           => /\ current_step_index < Len(plan)
              /\ node = CurrentStep.agent

\* the collaborator named a step by a name that is not known and contains
\* none of the words, and executor_node has routed that step to the
\* knowledge executor
C40_Witness ==
    /\ planned.pc = "create_plan"
    /\ planned.out.ok
    /\ planned.out.plan # <<>>
    /\ planned.out.plan[1].agent = AgentText("other", {})
    /\ node = "knowledge_agent"
    /\ plan # <<>>
    /\ plan[1].status = "in_progress"

====
